---- MODULE Spec2Model ----
(***************************************************************************)
(* Model of the chess package: positions, the legality engine, the move    *)
(* tree of a Game with its cursor, and the outcome / draw bookkeeping.     *)
(***************************************************************************)
EXTENDS Integers, Sequences, FiniteSets, TLC

(***************************************************************************)
(* Colours, piece types, pieces, squares.                                  *)
(***************************************************************************)
NoColor == 0
White == 1
Black == 2

NoPieceType == 0
King == 1
Queen == 2
Rook == 3
Bishop == 4
Knight == 5
Pawn == 6

NoPiece == 0

\* a coloured piece: white pieces 1..6, black pieces 7..12
Piece(c, t) == (c - 1) * 6 + t

PieceType(p) == IF p = NoPiece THEN NoPieceType ELSE ((p - 1) % 6) + 1

PieceColor(p) == IF p = NoPiece THEN NoColor ELSE IF p <= 6 THEN White ELSE Black

Other(c) == IF c = White THEN Black ELSE IF c = Black THEN White ELSE NoColor

WhiteKing == Piece(White, King)
BlackKing == Piece(Black, King)

Squares == 0..63
NoSquare == 64

File(sq) == sq % 8
Rank(sq) == sq \div 8
NewSquare(f, r) == r * 8 + f

A1 == 0
C1 == 2
D1 == 3
E1 == 4
F1 == 5
G1 == 6
H1 == 7
A8 == 56
C8 == 58
D8 == 59
E8 == 60
F8 == 61
G8 == 62
H8 == 63

Abs(x) == IF x < 0 THEN 0 - x ELSE x
Sgn(x) == IF x < 0 THEN 0 - 1 ELSE IF x > 0 THEN 1 ELSE 0
Max(a, b) == IF a >= b THEN a ELSE b

FileString(f) == <<"a", "b", "c", "d", "e", "f", "g", "h">>[f + 1]

(***************************************************************************)
(* Move tags.                                                              *)
(***************************************************************************)
KingSideCastle == "KingSideCastle"
QueenSideCastle == "QueenSideCastle"
Capture == "Capture"
EnPassant == "EnPassant"
Check == "Check"

(***************************************************************************)
(* Board: a function from the 64 squares to pieces.                        *)
(***************************************************************************)
EmptyBoard == [sq \in Squares |-> NoPiece]

\* the squares strictly between s1 and s2 on a common line
Between(s1, s2) ==
    LET df == File(s2) - File(s1)
        dr == Rank(s2) - Rank(s1)
        n == Max(Abs(df), Abs(dr))
    IN {NewSquare(File(s1) + k * Sgn(df), Rank(s1) + k * Sgn(dr)) : k \in 1..(n - 1)}

PathClear(b, s1, s2) == \A sq \in Between(s1, s2) : b[sq] = NoPiece

\* the piece standing on s1 bears on s2 (geometry of a capture)
Attacks(b, s1, s2) ==
    LET p == b[s1]
        t == PieceType(p)
        df == File(s2) - File(s1)
        dr == Rank(s2) - Rank(s1)
    IN /\ s1 # s2
       /\ CASE t = Knight -> {Abs(df), Abs(dr)} = {1, 2}
            [] t = King -> Max(Abs(df), Abs(dr)) = 1
            [] t = Rook -> (df = 0 \/ dr = 0) /\ PathClear(b, s1, s2)
            [] t = Bishop -> Abs(df) = Abs(dr) /\ PathClear(b, s1, s2)
            [] t = Queen -> (df = 0 \/ dr = 0 \/ Abs(df) = Abs(dr)) /\ PathClear(b, s1, s2)
            [] t = Pawn -> Abs(df) = 1 /\ dr = (IF PieceColor(p) = White THEN 1 ELSE 0 - 1)
            [] OTHER -> FALSE

squareAttacked(b, sq, by) ==
    \E s1 \in Squares : PieceColor(b[s1]) = by /\ Attacks(b, s1, sq)

kingAttacked(b, c) ==
    \E sq \in Squares : b[sq] = Piece(c, King) /\ squareAttacked(b, sq, Other(c))

\* Board.update: relocate the piece, remove the captured piece (the
\* en-passant victim stands behind the destination), relocate the castling
\* rook, substitute the promoted piece
BoardUpdate(b, m) ==
    LET p1 == b[m.s1]
        c == PieceColor(p1)
        placed == IF m.promo # NoPieceType THEN Piece(c, m.promo) ELSE p1
        epVictim == IF c = White THEN m.s2 - 8 ELSE m.s2 + 8
        rookFrom == IF KingSideCastle \in m.tags THEN m.s1 + 3 ELSE m.s1 - 4
        rookTo == IF KingSideCastle \in m.tags THEN m.s1 + 1 ELSE m.s1 - 1
        castles == KingSideCastle \in m.tags \/ QueenSideCastle \in m.tags
    IN [sq \in Squares |->
          IF sq = m.s2 THEN placed
          ELSE IF sq = m.s1 THEN NoPiece
          ELSE IF EnPassant \in m.tags /\ sq = epVictim THEN NoPiece
          ELSE IF castles /\ sq = rookTo THEN Piece(c, Rook)
          ELSE IF castles /\ sq = rookFrom THEN NoPiece
          ELSE b[sq]]

\* Board.String: the eight ranks from rank 8 down to rank 1, separated by
\* "/", runs of empty squares written as their length
pieceChar(p) == <<"K", "Q", "R", "B", "N", "P", "k", "q", "r", "b", "n", "p">>[p]

digitChar(n) == <<"1", "2", "3", "4", "5", "6", "7", "8">>[n]

RECURSIVE rankString(_, _, _, _)
rankString(b, r, f, empty) ==
    IF f = 8 THEN (IF empty > 0 THEN <<digitChar(empty)>> ELSE <<>>)
    ELSE IF b[NewSquare(f, r)] = NoPiece THEN rankString(b, r, f + 1, empty + 1)
    ELSE (IF empty > 0 THEN <<digitChar(empty)>> ELSE <<>>)
         \o <<pieceChar(b[NewSquare(f, r)])>> \o rankString(b, r, f + 1, 0)

RECURSIVE boardStringFrom(_, _)
boardStringFrom(b, r) ==
    IF r = 0 THEN rankString(b, 0, 0, 0)
    ELSE rankString(b, r, 0, 0) \o <<"/">> \o boardStringFrom(b, r - 1)

BoardString(b) == boardStringFrom(b, 7)

\* Board.hasSufficientMaterial: a pawn, rook or queen is sufficient; bare
\* kings, a single knight, and bishops all standing on one square colour
\* are not
squareShade(sq) == (File(sq) + Rank(sq)) % 2

hasSufficientMaterial(b) ==
    LET on(t) == {sq \in Squares : PieceType(b[sq]) = t}
        knights == Cardinality(on(Knight))
        bishops == on(Bishop)
    IN \/ on(Pawn) # {}
       \/ on(Rook) # {}
       \/ on(Queen) # {}
       \/ (knights > 0 /\ bishops # {})
       \/ knights > 1
       \/ \E s1 \in bishops, s2 \in bishops : squareShade(s1) # squareShade(s2)

(***************************************************************************)
(* Position: board, side to move, castling rights (the FEN text, one       *)
(* character per element), en-passant square, clocks and the inCheck flag. *)
(***************************************************************************)
NewPosition(b, turn, cr, ep, half, count, chk) ==
    [board |-> b, turn |-> turn, castleRights |-> cr, enPassantSquare |-> ep,
     halfMoveClock |-> half, moveCount |-> count, inCheck |-> chk]

Contains(str, ch) == \E i \in 1..Len(str) : str[i] = ch

ReplaceAll(str, ch) == SelectSeq(str, LAMBDA x : x # ch)

CanCastle(cr, c, side) ==
    Contains(cr, IF c = White THEN (IF side = QueenSideCastle THEN "Q" ELSE "K")
                 ELSE (IF side = QueenSideCastle THEN "q" ELSE "k"))

\* Position.copy: a copy carries the same field values
PositionCopy(pos) ==
    NewPosition(pos.board, pos.turn, pos.castleRights, pos.enPassantSquare,
                pos.halfMoveClock, pos.moveCount, pos.inCheck)

\* Position.updateCastleRights without the tests of the destination
updateCastleRightsByOrigin(pos, m) ==
    LET p == pos.board[m.s1]
        cr1 == IF p = WhiteKing \/ m.s1 = H1
               THEN ReplaceAll(pos.castleRights, "K") ELSE pos.castleRights
        cr2 == IF p = WhiteKing \/ m.s1 = A1
               THEN ReplaceAll(cr1, "Q") ELSE cr1
        cr3 == IF p = BlackKing \/ m.s1 = H8
               THEN ReplaceAll(cr2, "k") ELSE cr2
        cr4 == IF p = BlackKing \/ m.s1 = A8
               THEN ReplaceAll(cr3, "q") ELSE cr3
    IN IF cr4 = <<>> THEN <<"-">> ELSE cr4

\* Position.updateCastleRights
updateCastleRights(pos, m) ==
    LET p == pos.board[m.s1]
        cr1 == IF p = WhiteKing \/ m.s1 = H1 \/ m.s2 = H1
               THEN ReplaceAll(pos.castleRights, "K") ELSE pos.castleRights
        cr2 == IF p = WhiteKing \/ m.s1 = A1 \/ m.s2 = A1
               THEN ReplaceAll(cr1, "Q") ELSE cr1
        cr3 == IF p = BlackKing \/ m.s1 = H8 \/ m.s2 = H8
               THEN ReplaceAll(cr2, "k") ELSE cr2
        cr4 == IF p = BlackKing \/ m.s1 = A8 \/ m.s2 = A8
               THEN ReplaceAll(cr3, "q") ELSE cr3
    IN IF cr4 = <<>> THEN <<"-">> ELSE cr4

updateEnPassantSquare(pos, m) ==
    LET p == pos.board[m.s1]
    IN IF PieceType(p) # Pawn THEN NoSquare
       ELSE IF pos.turn = White /\ Rank(m.s1) = 1 /\ Rank(m.s2) = 3 THEN m.s2 - 8
       ELSE IF pos.turn = Black /\ Rank(m.s1) = 6 /\ Rank(m.s2) = 4 THEN m.s2 + 8
       ELSE NoSquare

\* Position.Update for a move (the tree never passes the nil move)
Update(pos, m) ==
    LET moveCount == IF pos.turn = Black THEN pos.moveCount + 1 ELSE pos.moveCount
        p == pos.board[m.s1]
        halfMove == IF PieceType(p) = Pawn \/ Capture \in m.tags
                    THEN 0 ELSE pos.halfMoveClock + 1
    IN NewPosition(BoardUpdate(pos.board, m), Other(pos.turn),
                   updateCastleRights(pos, m), updateEnPassantSquare(pos, m),
                   halfMove, moveCount, Check \in m.tags)

samePosition(pos, pos2) ==
    /\ pos.turn = pos2.turn
    /\ pos.castleRights = pos2.castleRights
    /\ pos.enPassantSquare = pos2.enPassantSquare
    /\ BoardString(pos.board) = BoardString(pos2.board)

(***************************************************************************)
(* Legality engine.                                                        *)
(***************************************************************************)
NewMove(s1, s2, promo, tags) == [s1 |-> s1, s2 |-> s2, promo |-> promo, tags |-> tags]

\* a destination the piece on s1 can reach by its movement rules
pseudoLegal(pos, s1, s2) ==
    LET b == pos.board
        p == b[s1]
        dir == IF pos.turn = White THEN 1 ELSE 0 - 1
        home == IF pos.turn = White THEN 1 ELSE 6
    IN /\ PieceColor(p) = pos.turn
       /\ PieceColor(b[s2]) # pos.turn
       /\ IF PieceType(p) = Pawn
          THEN \/ s2 = s1 + 8 * dir /\ b[s2] = NoPiece
               \/ /\ Rank(s1) = home
                  /\ s2 = s1 + 16 * dir
                  /\ b[s1 + 8 * dir] = NoPiece
                  /\ b[s2] = NoPiece
               \/ Attacks(b, s1, s2) /\ (b[s2] # NoPiece \/ s2 = pos.enPassantSquare)
          ELSE Attacks(b, s1, s2)

promotions(pos, s1, s2) ==
    IF PieceType(pos.board[s1]) = Pawn /\ Rank(s2) \in {0, 7}
    THEN {Queen, Rook, Bishop, Knight} ELSE {NoPieceType}

captureTags(pos, s1, s2) ==
    IF pos.board[s2] # NoPiece THEN {Capture}
    ELSE IF PieceType(pos.board[s1]) = Pawn /\ s2 = pos.enPassantSquare /\ File(s1) # File(s2)
    THEN {Capture, EnPassant}
    ELSE {}

\* the move leaves the mover's own king unattacked
leavesKingSafe(pos, m) == ~kingAttacked(BoardUpdate(pos.board, m), pos.turn)

\* addTags: Check when the opponent's king is attacked after the move
addTags(pos, m) ==
    IF kingAttacked(BoardUpdate(pos.board, m), Other(pos.turn))
    THEN [m EXCEPT !.tags = @ \cup {Check}] ELSE m

standardMovesTo(pos, s2) ==
    LET origins == {s1 \in Squares : pseudoLegal(pos, s1, s2)}
        moves == UNION {{NewMove(s1, s2, pr, captureTags(pos, s1, s2)) :
                           pr \in promotions(pos, s1, s2)} : s1 \in origins}
    IN {addTags(pos, m) : m \in {x \in moves : leavesKingSafe(pos, x)}}

castleMoves(pos) ==
    LET b == pos.board
        c == pos.turn
        e == IF c = White THEN E1 ELSE E8
        free(sqs) == \A sq \in sqs : b[sq] = NoPiece
        safe(sqs) == \A sq \in sqs : ~squareAttacked(b, sq, Other(c))
        ks == IF /\ CanCastle(pos.castleRights, c, KingSideCastle)
                 /\ free({e + 1, e + 2})
                 /\ safe({e, e + 1, e + 2})
              THEN {NewMove(e, e + 2, NoPieceType, {KingSideCastle})} ELSE {}
        qs == IF /\ CanCastle(pos.castleRights, c, QueenSideCastle)
                 /\ free({e - 1, e - 2, e - 3})
                 /\ safe({e, e - 1, e - 2})
              THEN {NewMove(e, e - 2, NoPieceType, {QueenSideCastle})} ELSE {}
    IN {addTags(pos, m) : m \in ks \cup qs}

ValidMovesTo(pos, s2) == standardMovesTo(pos, s2) \cup {m \in castleMoves(pos) : m.s2 = s2}

\* engine.CalcMoves: every legal move of the position
CalcMoves(pos) == UNION {standardMovesTo(pos, s2) : s2 \in Squares} \cup castleMoves(pos)

hasMove(pos) ==
    \/ \E s1 \in Squares :
          /\ PieceColor(pos.board[s1]) = pos.turn
          /\ \E s2 \in Squares :
                /\ pseudoLegal(pos, s1, s2)
                /\ leavesKingSafe(pos, NewMove(s1, s2,
                        IF NoPieceType \in promotions(pos, s1, s2) THEN NoPieceType ELSE Queen,
                        captureTags(pos, s1, s2)))
    \/ castleMoves(pos) # {}

isInCheck(pos) == kingAttacked(pos.board, pos.turn)

(***************************************************************************)
(* Outcomes and methods.                                                   *)
(***************************************************************************)
NoOutcome == "*"
WhiteWon == "1-0"
BlackWon == "0-1"
Draw == "1/2-1/2"

NoMethod == 0
Checkmate == 1
Resignation == 2
DrawOffer == 3
Stalemate == 4
ThreefoldRepetition == 5
FivefoldRepetition == 6
FiftyMoveRule == 7
SeventyFiveMoveRule == 8
InsufficientMaterial == 9

\* engine.Status
Status(pos) ==
    IF hasMove(pos) THEN NoMethod
    ELSE IF pos.inCheck THEN Checkmate ELSE Stalemate

(***************************************************************************)
(* Bounds of the model.                                                    *)
(***************************************************************************)
\* most move nodes a game allocates (the root included) while it is played,
\* claimed drawn and resigned
MaxNodes == 5

\* the same while the tree is built and navigated
MaxTreeNodes == 4

\* the same for the games played to a threefold repetition, and the most
\* nodes such a game has off its main line
MaxRepNodes == 9

MaxSideNodes == 1

\* the same for the games played along one line to a fivefold repetition
MaxLineNodes == 17

(***************************************************************************)
(* Game: the move tree is an arena of nodes, node 1 is the root; a node    *)
(* holds its parent (0 for none), its ordered children, the move and the   *)
(* position after the move.                                                *)
(***************************************************************************)
VARIABLES nodes, currentMove, pos, outcome, method, last, clone, tagMaps,
          validMoves, goroutines, rankBuffer, book

vars == <<nodes, currentMove, pos, outcome, method, last, clone, tagMaps,
          validMoves, goroutines, rankBuffer, book>>

\* a second Game value made by Clone, and the tag-pair maps of the heap; the
\* game's own map is the first
cloneVars == <<clone, tagMaps>>

\* state outside the Game: the legal-move cache of the Position pos points
\* to, the goroutines that call into the package, the package variable
\* rankBuffer, and the loading of an opening book
sharedVars == <<validMoves, goroutines, rankBuffer, book>>

\* a nil slice
nil == [array |-> 0, moves |-> {}]

NoBook == [pc |-> "none"]

\* no cache filled, no goroutine running, rankBuffer as declared, no book
SharedInit ==
    /\ validMoves = nil
    /\ goroutines = <<>>
    /\ rankBuffer = [i \in 1..8 |-> <<>>]
    /\ book = NoBook

tagPairs == 1

NoClone ==
    [made |-> FALSE, rootMove |-> 0, currentMove |-> 0, pos |-> 0,
     outcome |-> "*", method |-> 0, tagPairs |-> 0]

rootMove == 1

\* Game.ignoreAutomaticDraws is never set by the package
ignoreAutomaticDraws == FALSE

NewNode(parent, m, position) ==
    [parent |-> parent, children |-> <<>>, s1 |-> m.s1, s2 |-> m.s2,
     promo |-> m.promo, tags |-> m.tags, position |-> position]

\* Game.Positions: the positions along the main line, the root first
RECURSIVE positionsFrom(_, _)
positionsFrom(ns, n) ==
    IF Len(ns[n].children) = 0 THEN <<ns[n].position>>
    ELSE <<ns[n].position>> \o positionsFrom(ns, ns[n].children[1])

Positions(ns) == positionsFrom(ns, rootMove)

\* Game.Moves: the nodes of the main line, the root skipped
RECURSIVE movesFrom(_, _)
movesFrom(ns, n) ==
    IF Len(ns[n].children) = 0 THEN <<>>
    ELSE <<ns[n].children[1]>> \o movesFrom(ns, ns[n].children[1])

Moves(ns) == movesFrom(ns, rootMove)

\* numOfRepetitions counting the position of every node, on the main line or
\* not
numOfRepetitionsEveryNode(ns, p) ==
    Cardinality({i \in 1..Len(ns) : samePosition(p, ns[i].position)})

\* Game.numOfRepetitions
numOfRepetitions(ns, p) ==
    LET ps == Positions(ns)
    IN Cardinality({i \in 1..Len(ps) : samePosition(p, ps[i])})

\* the fivefold test one repetition early
isFivefoldAtFour(ns, p) == ~ignoreAutomaticDraws /\ numOfRepetitions(ns, p) >= 4

\* the three automatic draws of evaluatePositionStatus
isFivefold(ns, p) == ~ignoreAutomaticDraws /\ numOfRepetitions(ns, p) >= 5

\* the seventy-five-move test one half move late
isSeventyFiveAbove(p, meth) ==
    ~ignoreAutomaticDraws /\ p.halfMoveClock > 150 /\ meth # Checkmate

isSeventyFive(p, meth) ==
    ~ignoreAutomaticDraws /\ p.halfMoveClock >= 150 /\ meth # Checkmate

isInsufficient(p) == ~ignoreAutomaticDraws /\ ~hasSufficientMaterial(p.board)

\* Game.evaluatePositionStatus: the outcome and method it leaves
evaluatePositionStatus(ns, p, out, meth) ==
    LET st == Status(p)
        o1 == IF st = Stalemate THEN Draw
              ELSE IF st = Checkmate THEN (IF p.turn = White THEN BlackWon ELSE WhiteWon)
              ELSE out
        m1 == IF st = Stalemate THEN Stalemate
              ELSE IF st = Checkmate THEN Checkmate
              ELSE meth
        o2 == IF isFivefold(ns, p) THEN Draw ELSE o1
        m2 == IF isFivefold(ns, p) THEN FivefoldRepetition ELSE m1
        o3 == IF isSeventyFive(p, m2) THEN Draw ELSE o2
        m3 == IF isSeventyFive(p, m2) THEN SeventyFiveMoveRule ELSE m2
        o4 == IF isInsufficient(p) THEN Draw ELSE o3
        m4 == IF isInsufficient(p) THEN InsufficientMaterial ELSE m3
    IN IF o1 # NoOutcome THEN [outcome |-> o1, method |-> m1]
       ELSE [outcome |-> o4, method |-> m4]

(***************************************************************************)
(* Move text, as the lexer hands it to Parser.parseMove: the piece letter  *)
(* (NoPieceType when absent), an origin file ("" when absent), an origin   *)
(* rank (0 when absent), the destination, the capture sign, the promotion  *)
(* piece, the "+" suffix, or a castling token.                             *)
(***************************************************************************)
San(piece, originFile, dest, isCapture, promotion, check) ==
    [castle |-> "", piece |-> piece, originFile |-> originFile, originRank |-> 0,
     destSquare |-> dest, isCapture |-> isCapture, promotion |-> promotion,
     check |-> check]

CastleText(side) ==
    [castle |-> side, piece |-> NoPieceType, originFile |-> "", originRank |-> 0,
     destSquare |-> NoSquare, isCapture |-> FALSE, promotion |-> NoPieceType,
     check |-> FALSE]

\* Parser.parseMove: the legal moves the text matches, each with the tags
\* the parser gives it.  The parser takes the first match in the order of
\* the engine's move list; the model allows any of the matches.
parseMove(p, text) ==
    IF text.castle # ""
    THEN {NewMove(m.s1, m.s2, NoPieceType, {text.castle} \cup (m.tags \cap {Check})) :
            m \in {x \in castleMoves(p) : text.castle \in x.tags}}
    ELSE IF text.destSquare = NoSquare THEN {}
    ELSE LET matching ==
               {m \in ValidMovesTo(p, text.destSquare) :
                  /\ PieceType(p.board[m.s1]) =
                        (IF text.piece # NoPieceType THEN text.piece ELSE Pawn)
                  /\ (text.originFile # "" => FileString(File(m.s1)) = text.originFile)
                  \* strconv.Itoa(int('1' + s1/8)) is the decimal text of 49 + rank
                  /\ (text.originRank # 0 => 49 + Rank(m.s1) = text.originRank)
                  /\ text.isCapture = (Capture \in m.tags \/ EnPassant \in m.tags)
                  /\ (text.promotion # NoPieceType => m.promo = text.promotion)}
         IN {NewMove(m.s1, m.s2, m.promo,
                     m.tags \cup (IF text.check THEN {Check} ELSE {})) : m \in matching}

\* Game.findExistingMove: the first child of the cursor with the same
\* origin, destination and promotion, 0 when there is none
findExistingMove(ns, cur, m) ==
    LET ch == ns[cur].children
        hits == {i \in 1..Len(ch) :
                   ns[ch[i]].s1 = m.s1 /\ ns[ch[i]].s2 = m.s2 /\ ns[ch[i]].promo = m.promo}
    IN IF hits = {} THEN 0
       ELSE ch[CHOOSE i \in hits : \A j \in hits : i <= j]

\* Game.reorderMoveToFront: rotate the child to index 0, the others keep
\* their order
reorderMoveToFront(ch, id) ==
    <<id>> \o SelectSeq(ch, LAMBDA x : x # id)

\* Game.addNewMove without the test of forceMainline
addNewMoveAtBack(ch, id, forceMainline) == Append(ch, id)

\* Game.addNewMove
addNewMove(ch, id, forceMainline) ==
    IF forceMainline THEN <<id>> \o ch ELSE Append(ch, id)

\* Game.addOrReorderMove: the children of the cursor afterwards; id is the
\* node of the move being pushed
addOrReorderMove(ns, cur, id, existingMove, forceMainline) ==
    LET ch == ns[cur].children
    IN IF existingMove # 0
       THEN IF forceMainline /\ existingMove # ch[1]
            THEN reorderMoveToFront(ch, existingMove) ELSE ch
       ELSE addNewMove(ch, id, forceMainline)

\* the node the cursor stands on after PushMove
pushedCursor(id, existingMove) == id

\* Game.PushMove
PushMove(text, forceMainline) ==
    LET parsed == parseMove(pos, text)
    IN IF parsed = {}
       THEN /\ last' = [op |-> "PushMove", arg |-> FALSE, ok |-> FALSE]
            /\ UNCHANGED cloneVars
            /\ UNCHANGED sharedVars
            /\ UNCHANGED <<nodes, currentMove, pos, outcome, method>>
       ELSE \E m \in parsed :
                 LET id == Len(nodes) + 1
                     existingMove == findExistingMove(nodes, currentMove, m)
                     ch == addOrReorderMove(nodes, currentMove, id, existingMove,
                                            forceMainline)
                     newPos == Update(pos, m)
                     ns == Append([nodes EXCEPT ![currentMove].children = ch],
                                  NewNode(currentMove, m, newPos))
                     ev == evaluatePositionStatus(ns, newPos, outcome, method)
                 IN /\ nodes' = ns
                    /\ pos' = newPos
                    /\ currentMove' = pushedCursor(id, existingMove)
                    /\ outcome' = ev.outcome
                    /\ method' = ev.method
                    /\ last' = [op |-> "PushMove", arg |-> FALSE, ok |-> TRUE]
                    /\ UNCHANGED cloneVars
                    /\ UNCHANGED sharedVars

\* Game.GoBack
GoBack ==
    IF nodes[currentMove].parent # 0
    THEN /\ currentMove' = nodes[currentMove].parent
         /\ pos' = PositionCopy(nodes[nodes[currentMove].parent].position)
         /\ last' = [op |-> "GoBack", arg |-> FALSE, ok |-> TRUE]
         /\ UNCHANGED cloneVars
         /\ UNCHANGED sharedVars
         /\ UNCHANGED <<nodes, outcome, method>>
    ELSE /\ last' = [op |-> "GoBack", arg |-> FALSE, ok |-> FALSE]
         /\ UNCHANGED cloneVars
         /\ UNCHANGED sharedVars
         /\ UNCHANGED <<nodes, currentMove, pos, outcome, method>>

\* Game.GoForward following the last child
GoForwardLastChild ==
    IF Len(nodes[currentMove].children) > 0
    THEN /\ currentMove' = nodes[currentMove].children[Len(nodes[currentMove].children)]
         /\ pos' = nodes[nodes[currentMove].children[Len(nodes[currentMove].children)]].position
         /\ last' = [op |-> "GoForward", arg |-> FALSE, ok |-> TRUE]
         /\ UNCHANGED cloneVars
         /\ UNCHANGED sharedVars
         /\ UNCHANGED <<nodes, outcome, method>>
    ELSE /\ last' = [op |-> "GoForward", arg |-> FALSE, ok |-> FALSE]
         /\ UNCHANGED cloneVars
         /\ UNCHANGED sharedVars
         /\ UNCHANGED <<nodes, currentMove, pos, outcome, method>>

\* Game.GoForward
GoForward ==
    IF Len(nodes[currentMove].children) > 0
    THEN /\ currentMove' = nodes[currentMove].children[1]
         /\ pos' = nodes[nodes[currentMove].children[1]].position
         /\ last' = [op |-> "GoForward", arg |-> FALSE, ok |-> TRUE]
         /\ UNCHANGED cloneVars
         /\ UNCHANGED sharedVars
         /\ UNCHANGED <<nodes, outcome, method>>
    ELSE /\ last' = [op |-> "GoForward", arg |-> FALSE, ok |-> FALSE]
         /\ UNCHANGED cloneVars
         /\ UNCHANGED sharedVars
         /\ UNCHANGED <<nodes, currentMove, pos, outcome, method>>

\* isMainLine
RECURSIVE isMainLine(_, _)
isMainLine(ns, n) ==
    IF ns[n].parent = 0 THEN TRUE
    ELSE n = ns[ns[n].parent].children[1] /\ isMainLine(ns, ns[n].parent)

\* Game.NavigateToMainLine: the walk up from the cursor computes a node
\* that is not used; the cursor goes to the first move of the main line
NavigateToMainLine ==
    /\ currentMove' = IF Len(nodes[rootMove].children) = 0 THEN rootMove
                      ELSE nodes[rootMove].children[1]
    /\ last' = [op |-> "NavigateToMainLine", arg |-> FALSE, ok |-> TRUE]
    /\ UNCHANGED cloneVars
    /\ UNCHANGED sharedVars
    /\ UNCHANGED <<nodes, pos, outcome, method>>

\* Game.Draw with the fifty-move test off by one
drawAcceptedAboveHundred(ns, p, m) ==
    CASE m = ThreefoldRepetition -> numOfRepetitions(ns, p) >= 3
      [] m = FiftyMoveRule -> p.halfMoveClock > 100
      [] m = DrawOffer -> TRUE
      [] OTHER -> FALSE

\* Game.Draw: whether the switch over the method reaches the assignment
drawAccepted(ns, p, m) ==
    CASE m = ThreefoldRepetition -> numOfRepetitions(ns, p) >= 3
      [] m = FiftyMoveRule -> p.halfMoveClock >= 100
      [] m = DrawOffer -> TRUE
      [] OTHER -> FALSE

\* Game.Draw
DrawClaim(m) ==
    IF drawAccepted(nodes, pos, m)
    THEN /\ outcome' = Draw
         /\ method' = m
         /\ last' = [op |-> "Draw", arg |-> m, ok |-> TRUE]
         /\ UNCHANGED cloneVars
         /\ UNCHANGED sharedVars
         /\ UNCHANGED <<nodes, currentMove, pos>>
    ELSE /\ last' = [op |-> "Draw", arg |-> m, ok |-> FALSE]
         /\ UNCHANGED cloneVars
         /\ UNCHANGED sharedVars
         /\ UNCHANGED <<nodes, currentMove, pos, outcome, method>>

\* the guard of Game.Resign without the test of the colour
resignRejectedDecidedOnly(out, color) == out # NoOutcome

\* Game.Resign: the guard of the early return
resignRejected(out, color) == out # NoOutcome \/ color = NoColor

\* Game.Resign
Resign(color) ==
    IF resignRejected(outcome, color)
    THEN /\ last' = [op |-> "Resign", arg |-> color, ok |-> FALSE]
         /\ UNCHANGED cloneVars
         /\ UNCHANGED sharedVars
         /\ UNCHANGED <<nodes, currentMove, pos, outcome, method>>
    ELSE /\ outcome' = IF color = White THEN BlackWon ELSE WhiteWon
         /\ method' = Resignation
         /\ last' = [op |-> "Resign", arg |-> color, ok |-> TRUE]
         /\ UNCHANGED cloneVars
         /\ UNCHANGED sharedVars
         /\ UNCHANGED <<nodes, currentMove, pos>>

(***************************************************************************)
(* Game.Clone and the operations on the Game value it returns.  The clone *)
(* holds references: its root and cursor are nodes of the same arena and  *)
(* its tag pairs are a map of the same heap.                               *)
(***************************************************************************)
\* Game.Clone: every field of the new Game is the field of the receiver
Clone ==
    /\ ~clone.made
    /\ clone' = [made |-> TRUE, rootMove |-> rootMove, currentMove |-> currentMove,
                 pos |-> pos, outcome |-> outcome, method |-> method,
                 tagPairs |-> tagPairs]
    /\ last' = [op |-> "Clone", arg |-> FALSE, ok |-> TRUE]
    /\ UNCHANGED <<nodes, currentMove, pos, outcome, method, tagMaps>>
    /\ UNCHANGED sharedVars

\* Game.PushMove called on the clone
ClonePushMove(text, forceMainline) ==
    /\ clone.made
    /\ LET parsed == parseMove(clone.pos, text)
       IN IF parsed = {}
          THEN /\ last' = [op |-> "ClonePushMove", arg |-> FALSE, ok |-> FALSE]
               /\ UNCHANGED <<nodes, clone>>
          ELSE \E m \in parsed :
                 LET id == Len(nodes) + 1
                     existingMove == findExistingMove(nodes, clone.currentMove, m)
                     ch == addOrReorderMove(nodes, clone.currentMove, id, existingMove,
                                            forceMainline)
                     newPos == Update(clone.pos, m)
                     ns == Append([nodes EXCEPT ![clone.currentMove].children = ch],
                                  NewNode(clone.currentMove, m, newPos))
                     ev == evaluatePositionStatus(ns, newPos, clone.outcome, clone.method)
                 IN /\ nodes' = ns
                    /\ clone' = [clone EXCEPT !.pos = newPos,
                                              !.currentMove = pushedCursor(id, existingMove),
                                              !.outcome = ev.outcome,
                                              !.method = ev.method]
                    /\ last' = [op |-> "ClonePushMove", arg |-> FALSE, ok |-> TRUE]
    /\ UNCHANGED <<currentMove, pos, outcome, method, tagMaps>>
    /\ UNCHANGED sharedVars

\* Game.AddTagPair: the map the game refers to gets the pair
AddTagPair(k, v) ==
    /\ tagMaps' = [tagMaps EXCEPT ![tagPairs] = (k :> v) @@ @]
    /\ last' = [op |-> "AddTagPair", arg |-> FALSE, ok |-> k \in DOMAIN tagMaps[tagPairs]]
    /\ UNCHANGED <<nodes, currentMove, pos, outcome, method, clone>>
    /\ UNCHANGED sharedVars

\* Game.AddTagPair called on the clone
CloneAddTagPair(k, v) ==
    /\ clone.made
    /\ tagMaps' = [tagMaps EXCEPT ![clone.tagPairs] = (k :> v) @@ @]
    /\ last' = [op |-> "CloneAddTagPair", arg |-> FALSE,
                ok |-> k \in DOMAIN tagMaps[clone.tagPairs]]
    /\ UNCHANGED <<nodes, currentMove, pos, outcome, method, clone>>
    /\ UNCHANGED sharedVars

(***************************************************************************)
(* Games the model starts from: NewGame() and NewGame(FEN(text)).          *)
(***************************************************************************)
PlaceBoard(f) == [sq \in Squares |-> IF sq \in DOMAIN f THEN f[sq] ELSE NoPiece]

backRank == <<Rook, Knight, Bishop, Queen, King, Bishop, Knight, Rook>>

\* StartingPosition: rnbqkbnr/pppppppp/8/8/8/8/PPPPPPPP/RNBQKBNR w KQkq - 0 1
StartingPosition ==
    NewPosition([sq \in Squares |->
                   CASE Rank(sq) = 0 -> Piece(White, backRank[File(sq) + 1])
                     [] Rank(sq) = 1 -> Piece(White, Pawn)
                     [] Rank(sq) = 6 -> Piece(Black, Pawn)
                     [] Rank(sq) = 7 -> Piece(Black, backRank[File(sq) + 1])
                     [] OTHER -> NoPiece],
                White, <<"K", "Q", "k", "q">>, NoSquare, 0, 1, FALSE)

\* what decodeFEN returns for a text without castling rights and en passant
Fen(f, turn, half, count) ==
    NewPosition(PlaceBoard(f), turn, <<"-">>, NoSquare, half, count, FALSE)

\* k1K5/8/8/8/8/8/8/1Q6 w - - <half> 1
FenQueen(half) ==
    Fen(56 :> BlackKing @@ 58 :> WhiteKing @@ 1 :> Piece(White, Queen), White, half, 1)

\* k7/8/1K6/8/8/8/8/7R w - - <half> 1
FenRook(half) ==
    Fen(56 :> BlackKing @@ 41 :> WhiteKing @@ 7 :> Piece(White, Rook), White, half, 1)

\* k7/8/8/8/8/8/8/K6R w - - <half> 60
FenShuffle(half) ==
    Fen(56 :> BlackKing @@ 0 :> WhiteKing @@ 7 :> Piece(White, Rook), White, half, 60)

\* k7/8/K2n4/8/8/B7/8/8 w - - 0 1
FenBishop ==
    Fen(56 :> BlackKing @@ 40 :> WhiteKing @@ 43 :> Piece(Black, Knight)
        @@ 16 :> Piece(White, Bishop), White, 0, 1)

\* 8/2k5/8/8/8/3K4/8/8 w - - <half> 1
FenBareKings(half) ==
    Fen(50 :> BlackKing @@ 19 :> WhiteKing, White, half, 1)

\* k6R/8/1K6/8/8/8/8/8 b - - <half> 1
FenMated(half) ==
    Fen(56 :> BlackKing @@ 41 :> WhiteKing @@ 63 :> Piece(White, Rook), Black, half, 1)

\* k1K5/8/1Q6/8/8/8/8/8 b - - <half> 1
FenStalemated(half) ==
    Fen(56 :> BlackKing @@ 58 :> WhiteKing @@ 41 :> Piece(White, Queen), Black, half, 1)

FenSeeds ==
    {FenQueen(0), FenQueen(149), FenRook(98), FenRook(148), FenRook(149),
     FenBishop, FenBareKings(1), FenBareKings(150),
     FenMated(0), FenMated(150), FenStalemated(0), FenStalemated(150)}

\* the move texts pushed
MoveTexts ==
    {San(Queen, "", 41, FALSE, NoPieceType, FALSE),      \* Qb6
     San(Queen, "", 41, FALSE, NoPieceType, TRUE),       \* Qb6+
     San(Queen, "", 49, FALSE, NoPieceType, FALSE),      \* Qb7
     San(Rook, "", 63, FALSE, NoPieceType, FALSE),       \* Rh8
     San(Rook, "", 15, FALSE, NoPieceType, FALSE),       \* Rh2
     San(King, "", 57, FALSE, NoPieceType, FALSE),       \* Kb8
     San(Bishop, "", 43, TRUE, NoPieceType, FALSE),      \* Bxd6
     San(NoPieceType, "", NoSquare, FALSE, NoPieceType, FALSE)}  \* e9

\* the methods handed to Draw: every Method and one value outside them
DrawMethods == 0..10

Colors == {NoColor, White, Black}

\* NewGame: the root holds the position, the cursor is the root
NewGameState(p, out, meth) ==
    /\ nodes = <<[parent |-> 0, children |-> <<>>, s1 |-> 0, s2 |-> 0,
                  promo |-> NoPieceType, tags |-> {}, position |-> p]>>
    /\ currentMove = rootMove
    /\ pos = p
    /\ outcome = out
    /\ method = meth
    /\ last = [op |-> "NewGame", arg |-> FALSE, ok |-> TRUE]
    /\ clone = NoClone
    /\ tagMaps = << <<>> >>
    /\ SharedInit

\* the option FEN returns: set inCheck, seed the root, evaluate the status
SeedFEN(decoded) ==
    LET p == [decoded EXCEPT !.inCheck = isInCheck(decoded)]
        ns == <<[parent |-> 0, children |-> <<>>, s1 |-> 0, s2 |-> 0,
                 promo |-> NoPieceType, tags |-> {}, position |-> p]>>
        ev == evaluatePositionStatus(ns, p, NoOutcome, NoMethod)
    IN NewGameState(p, ev.outcome, ev.method)

Init ==
    \/ NewGameState(StartingPosition, NoOutcome, NoMethod)
    \/ \E decoded \in FenSeeds : SeedFEN(decoded)

(***************************************************************************)
(* NewGame(PGN(r)): the parser builds a Game of its own from the tokens of *)
(* the text and the option copies that Game's fields into the new game.   *)
(* A text is its main-line move texts and its result token ("" when the    *)
(* text has none).                                                         *)
(***************************************************************************)
\* the zero value of Outcome, which the Game literal of NewParser leaves
UnsetOutcome == ""

\* NewParser: a root holding the starting position; p.currentMove and the
\* game's currentMove are both the root
NewParser ==
    [ok |-> TRUE,
     nodes |-> <<[parent |-> 0, children |-> <<>>, s1 |-> 0, s2 |-> 0,
                  promo |-> NoPieceType, tags |-> {}, position |-> StartingPosition]>>,
     parserMove |-> rootMove,
     currentMove |-> rootMove,
     pos |-> StartingPosition,
     outcome |-> UnsetOutcome,
     method |-> NoMethod,
     panic |-> FALSE]

\* Parser.addMove: the move becomes the last child of p.currentMove, the
\* game's position is updated and cached in the move, p.currentMove advances
addMove(p, m) ==
    LET id == Len(p.nodes) + 1
        newPos == Update(p.pos, m)
    IN [p EXCEPT !.nodes = Append([p.nodes EXCEPT ![p.parserMove].children = Append(@, id)],
                                  NewNode(p.parserMove, m, newPos)),
                 !.pos = newPos,
                 !.parserMove = id]

\* F(v), with v worked out once
With(v, F(_)) == CHOOSE r \in {F(x) : x \in {v}} : TRUE

\* the loop of Parser.parseVariation over the move tokens of a variation:
\* a move is the last child of p.currentMove and caches the position before
\* it; a move of the side that is not to move ends the parse with an error
RECURSIVE parseVariationMoves(_, _, _)
parseVariationMoves(p, isBlackMove, texts) ==
    IF texts = <<>> THEN p
    ELSE IF isBlackMove # (p.pos.turn = Black) THEN [p EXCEPT !.ok = FALSE]
    ELSE With(parseMove(p.pos, Head(texts)),
              LAMBDA parsed :
                IF parsed = {} THEN [p EXCEPT !.ok = FALSE]
                ELSE With([p EXCEPT
                             !.nodes = Append([p.nodes EXCEPT ![p.parserMove].children =
                                                                 Append(@, Len(p.nodes) + 1)],
                                              NewNode(p.parserMove, CHOOSE x \in parsed : TRUE,
                                                      PositionCopy(p.pos))),
                             !.pos = Update(p.pos, CHOOSE x \in parsed : TRUE),
                             !.parserMove = Len(p.nodes) + 1],
                          LAMBDA q : parseVariationMoves(q, ~isBlackMove, Tail(texts))))

\* Parser.parseVariation: v.black says the variation is written with an
\* ellipsis.  After a move the variation branches from that move's parent,
\* and the position is taken from the parent of that parent: the root has no
\* parent, and reading the position of a nil Move panics.
parseVariation(p, v) ==
    LET parentMove == p.parserMove
        oldPos == p.pos
        variationParent == p.nodes[parentMove].parent
        from == p.nodes[variationParent]
    IN IF parentMove # rootMove /\ variationParent # 0 /\ from.parent = 0
       THEN [p EXCEPT !.ok = FALSE, !.panic = TRUE]
       ELSE With(IF parentMove # rootMove /\ variationParent # 0
                 THEN parseVariationMoves(
                        [p EXCEPT !.pos = Update(PositionCopy(p.nodes[from.parent].position),
                                                 NewMove(from.s1, from.s2, from.promo,
                                                         from.tags)),
                                  !.parserMove = variationParent],
                        v.black, v.moves)
                 ELSE parseVariationMoves([p EXCEPT !.pos = StartingPosition,
                                                    !.parserMove = rootMove],
                                          v.black, v.moves),
                 LAMBDA q : IF ~q.ok THEN q
                            ELSE [q EXCEPT !.pos = oldPos, !.parserMove = parentMove])

\* Parser.parseMoveText over the move tokens and the variations between
\* them: an illegal move ends the parse with an error
RECURSIVE parseMoveText(_, _)
parseMoveText(p, texts) ==
    IF texts = <<>> \/ ~p.ok THEN p
    ELSE IF "black" \in DOMAIN Head(texts)
    THEN With(parseVariation(p, Head(texts)), LAMBDA q : parseMoveText(q, Tail(texts)))
    ELSE With(parseMove(p.pos, Head(texts)),
              LAMBDA parsed :
                IF parsed = {} THEN [p EXCEPT !.ok = FALSE]
                ELSE With(addMove(p, CHOOSE m \in parsed : TRUE),
                          LAMBDA q : parseMoveText(q, Tail(texts))))

\* Parser.parseResult
parseResult(p, result) ==
    [p EXCEPT !.outcome = CASE result = "1-0" -> WhiteWon
                            [] result = "0-1" -> BlackWon
                            [] result = "1/2-1/2" -> Draw
                            [] OTHER -> NoOutcome]

\* Parser.Parse: the moves, then the result token when there is one
Parse(text) ==
    With(parseMoveText(NewParser, text.moves),
         LAMBDA p : IF p.ok /\ text.result # "" THEN parseResult(p, text.result) ELSE p)

(***************************************************************************)
(* A game that is played, claimed drawn and resigned.                      *)
(***************************************************************************)
Next ==
    \/ /\ Len(nodes) < MaxNodes
       /\ \E text \in MoveTexts, forceMainline \in BOOLEAN : PushMove(text, forceMainline)
    \/ \E m \in DrawMethods : DrawClaim(m)
    \/ \E color \in Colors : Resign(color)

Spec == Init /\ [][Next]_vars

(***************************************************************************)
(* A game whose tree is built and navigated.                               *)
(***************************************************************************)
NextTree ==
    \/ /\ Len(nodes) < MaxTreeNodes
       /\ \E text \in MoveTexts, forceMainline \in BOOLEAN : PushMove(text, forceMainline)
    \/ GoBack
    \/ GoForward
    \/ NavigateToMainLine

SpecTree == Init /\ [][NextTree]_vars

(***************************************************************************)
(* Games played to a repetition: the kings step to and fro, moves are      *)
(* taken back and draws are claimed.                                       *)
(***************************************************************************)
ShuffleTexts ==
    {San(King, "", 1, FALSE, NoPieceType, FALSE),        \* Kb1
     San(King, "", 0, FALSE, NoPieceType, FALSE),        \* Ka1
     San(King, "", 57, FALSE, NoPieceType, FALSE),       \* Kb8
     San(King, "", 56, FALSE, NoPieceType, FALSE)}       \* Ka8

\* the nodes that are not on the main line
sideNodes(ns) == Len(ns) - Len(Positions(ns))

InitRep == SeedFEN(FenShuffle(98))

NextRep ==
    \/ /\ Len(nodes) < MaxRepNodes
       /\ \E text \in ShuffleTexts : PushMove(text, FALSE)
       /\ sideNodes(nodes') <= MaxSideNodes
    \/ GoBack
    \/ \E m \in DrawMethods : DrawClaim(m)

SpecRep == InitRep /\ [][NextRep]_vars

(***************************************************************************)
(* Games played along one line from the starting position: the knights     *)
(* step out and back.                                                      *)
(***************************************************************************)
KnightTexts ==
    {San(Knight, "", 21, FALSE, NoPieceType, FALSE),     \* Nf3
     San(Knight, "", 6, FALSE, NoPieceType, FALSE),      \* Ng1
     San(Knight, "", 18, FALSE, NoPieceType, FALSE),     \* Nc3
     San(Knight, "", 1, FALSE, NoPieceType, FALSE),      \* Nb1
     San(Knight, "", 45, FALSE, NoPieceType, FALSE),     \* Nf6
     San(Knight, "", 62, FALSE, NoPieceType, FALSE)}     \* Ng8

InitLine == NewGameState(StartingPosition, NoOutcome, NoMethod)

NextLine ==
    /\ Len(nodes) < MaxLineNodes
    /\ \E text \in KnightTexts : PushMove(text, FALSE)

SpecLine == InitLine /\ [][NextLine]_vars

(***************************************************************************)
(* A game that is cloned; moves are pushed and tag pairs added on the game *)
(* and on its clone.                                                       *)
(***************************************************************************)
\* most move nodes of the arena while a game and its clone are played
MaxCloneNodes == 4

CloneTexts ==
    {San(Rook, "", 15, FALSE, NoPieceType, FALSE),       \* Rh2
     San(Rook, "", 23, FALSE, NoPieceType, FALSE),       \* Rh3
     San(King, "", 57, FALSE, NoPieceType, FALSE)}       \* Kb8

TagKeys == {"Event"}

TagValues == {"Test Event", "Test Event Modified"}

InitClone == SeedFEN(FenRook(0))

NextClone ==
    \/ /\ Len(nodes) < MaxCloneNodes
       /\ \E text \in CloneTexts : PushMove(text, FALSE)
    \/ Clone
    \/ /\ Len(nodes) < MaxCloneNodes
       /\ \E text \in CloneTexts : ClonePushMove(text, FALSE)
    \/ \E k \in TagKeys, v \in TagValues : AddTagPair(k, v)
    \/ \E k \in TagKeys, v \in TagValues : CloneAddTagPair(k, v)

SpecClone == InitClone /\ [][NextClone]_vars

(***************************************************************************)
(* Games loaded from a PGN text, then played, claimed drawn and resigned.  *)
(***************************************************************************)
\* most moves of a PGN text, and most move nodes of a loaded game
MaxPgnMoves == 2

MaxPgnNodes == 4

PgnResults == {"", "1-0", "0-1", "1/2-1/2", "*"}

PgnTexts ==
    {[moves |-> ms, result |-> r] :
        ms \in UNION {[1..n -> KnightTexts] : n \in 0..MaxPgnMoves}, r \in PgnResults}

\* NewGame(PGN(r)): Game.copy takes root, cursor, position, outcome and
\* method from the parser's game
InitPGN ==
    \E text \in PgnTexts :
       \E g \in {Parse(text)} :
          /\ g.ok
          /\ nodes = g.nodes
          /\ currentMove = g.currentMove
          /\ pos = g.pos
          /\ outcome = g.outcome
          /\ method = g.method
          /\ last = [op |-> "PGN", arg |-> text.result # "", ok |-> TRUE]
          /\ clone = NoClone
          /\ tagMaps = << <<>> >>
          /\ SharedInit

NextPGN ==
    \/ /\ Len(nodes) < MaxPgnNodes
       /\ \E text \in KnightTexts : PushMove(text, FALSE)
    \/ GoForward
    \/ \E color \in Colors : Resign(color)

SpecPGN == InitPGN /\ [][NextPGN]_vars

(***************************************************************************)
(* Games of kings and rooks on their home squares: the kings and rooks     *)
(* move, castle and capture one another.                                   *)
(***************************************************************************)
\* most move nodes of such a game
MaxCastleNodes == 4

\* r3k2r/8/8/8/8/8/8/R3K2R w <cr> - 0 1
FenCastle(cr) ==
    NewPosition(PlaceBoard(A1 :> Piece(White, Rook) @@ E1 :> WhiteKing
                           @@ H1 :> Piece(White, Rook) @@ A8 :> Piece(Black, Rook)
                           @@ E8 :> BlackKing @@ H8 :> Piece(Black, Rook)),
                White, cr, NoSquare, 0, 1, FALSE)

CastleSeeds == {FenCastle(<<"K", "Q", "k", "q">>), FenCastle(<<"K", "q">>), FenCastle(<<"-">>)}

CastleTexts ==
    {CastleText(KingSideCastle),                         \* O-O
     CastleText(QueenSideCastle),                        \* O-O-O
     San(King, "", 12, FALSE, NoPieceType, FALSE),       \* Ke2
     San(King, "", 52, FALSE, NoPieceType, FALSE),       \* Ke7
     San(Rook, "", 8, FALSE, NoPieceType, FALSE),        \* Ra2
     San(Rook, "", 55, FALSE, NoPieceType, FALSE),       \* Rh7
     San(Rook, "", 56, TRUE, NoPieceType, FALSE),        \* Rxa8
     San(Rook, "", 63, TRUE, NoPieceType, FALSE),        \* Rxh8
     San(Rook, "", 0, TRUE, NoPieceType, FALSE),         \* Rxa1
     San(Rook, "", 7, TRUE, NoPieceType, FALSE)}         \* Rxh1

InitCastle == \E decoded \in CastleSeeds : SeedFEN(decoded)

NextCastle ==
    /\ Len(nodes) < MaxCastleNodes
    /\ \E text \in CastleTexts : PushMove(text, FALSE)

SpecCastle == InitCastle /\ [][NextCastle]_vars

(***************************************************************************)
(* FEN decoding.  A text is the list of the fields strings.Split finds     *)
(* between its spaces, and a field is the list of its characters (ASCII).  *)
(***************************************************************************)
isDigit(c) == c \in {"0", "1", "2", "3", "4", "5", "6", "7", "8", "9"}

digitValue(c) == CHOOSE n \in 0..9 : <<"0", "1", "2", "3", "4", "5", "6", "7", "8", "9">>[n + 1] = c

RECURSIVE decimal(_)
decimal(digits) ==
    IF digits = <<>> THEN 0
    ELSE decimal(SubSeq(digits, 1, Len(digits) - 1)) * 10 + digitValue(digits[Len(digits)])

\* strconv.Atoi: an optional sign and one or more decimal digits
Atoi(s) ==
    LET signed == Len(s) > 0 /\ s[1] \in {"+", "-"}
        digits == IF signed THEN Tail(s) ELSE s
    IN IF digits = <<>> \/ \E i \in 1..Len(digits) : ~isDigit(digits[i])
       THEN [ok |-> FALSE, value |-> 0]
       ELSE [ok |-> TRUE,
             value |-> IF signed /\ s[1] = "-" THEN 0 - decimal(digits) ELSE decimal(digits)]

\* a byte above 127 is written 0x and its two hexadecimal digits
isASCII(c) == c \notin {"0xC3", "0xA9"}

\* fenCharToPiece: NoPiece for every character that is no piece letter; the
\* table has 128 elements
fenCharToPiece(c) ==
    IF \E p \in 1..12 : pieceChar(p) = c
    THEN CHOOSE p \in 1..12 : pieceChar(p) = c
    ELSE NoPiece

\* the loop of fenFormRank from character i on, count files done, m the pieces;
\* indexing fenCharToPiece with a byte above 127 panics (index out of range)
RECURSIVE fenFormRankFrom(_, _, _, _)
fenFormRankFrom(rankStr, i, count, m) ==
    IF i > Len(rankStr) THEN [ok |-> count = 8, files |-> m, panic |-> FALSE]
    ELSE IF rankStr[i] \in {"1", "2", "3", "4", "5", "6", "7", "8"}
    THEN fenFormRankFrom(rankStr, i + 1, count + digitValue(rankStr[i]), m)
    ELSE IF ~isASCII(rankStr[i]) THEN [ok |-> FALSE, files |-> m, panic |-> TRUE]
    ELSE IF fenCharToPiece(rankStr[i]) = NoPiece
    THEN [ok |-> FALSE, files |-> m, panic |-> FALSE]
    ELSE fenFormRankFrom(rankStr, i + 1, count + 1,
                         (count :> fenCharToPiece(rankStr[i])) @@ m)

fenFormRank(rankStr) == fenFormRankFrom(rankStr, 1, 0, <<>>)

\* the splitting loop of fenBoard from character i on: start is where the
\* rank being read begins, ranks are the ranks stored in rankBuffer
RECURSIVE fenSplitFrom(_, _, _, _)
fenSplitFrom(boardStr, i, start, ranks) ==
    IF i > Len(boardStr)
    THEN IF start <= Len(boardStr)
         THEN IF Len(ranks) >= 8 THEN [ok |-> FALSE, ranks |-> ranks]
              ELSE [ok |-> TRUE,
                    ranks |-> Append(ranks, SubSeq(boardStr, start, Len(boardStr)))]
         ELSE [ok |-> TRUE, ranks |-> ranks]
    ELSE IF boardStr[i] = "/"
    THEN IF Len(ranks) >= 8 THEN [ok |-> FALSE, ranks |-> ranks]
         ELSE fenSplitFrom(boardStr, i + 1, i + 1,
                           Append(ranks, SubSeq(boardStr, start, i - 1)))
    ELSE fenSplitFrom(boardStr, i + 1, start, ranks)

\* fenBoard from the ranks in rankBuffer on: the first is rank 8, every one
\* describes 8 files
fenBoardRanks(ranks) ==
    IF \E i \in 1..8 : ~fenFormRank(ranks[i]).ok
    THEN LET first == CHOOSE i \in 1..8 :
                         /\ ~fenFormRank(ranks[i]).ok
                         /\ \A j \in 1..(i - 1) : fenFormRank(ranks[j]).ok
         IN [ok |-> FALSE, board |-> EmptyBoard,
             panic |-> fenFormRank(ranks[first]).panic]
    ELSE [ok |-> TRUE, panic |-> FALSE,
          board |-> [sq \in Squares |->
                       LET fileMap == fenFormRank(ranks[8 - Rank(sq)]).files
                       IN IF File(sq) \in DOMAIN fileMap THEN fileMap[File(sq)]
                          ELSE NoPiece]]

\* fenBoard: the placement is split into eight ranks, the ranks into files
fenBoard(boardStr) ==
    LET split == fenSplitFrom(boardStr, 1, 1, <<>>)
    IN IF ~split.ok \/ Len(split.ranks) # 8
       THEN [ok |-> FALSE, board |-> EmptyBoard, panic |-> FALSE]
       ELSE fenBoardRanks(split.ranks)

\* strings.Count for a text of one character
Count(str, ch) == Cardinality({i \in 1..Len(str) : str[i] = ch})

formCastleRights(castleStr) ==
    IF \E s \in {"K", "Q", "k", "q", "-"} : Count(castleStr, s) > 1
    THEN [ok |-> FALSE, rights |-> <<"-">>]
    ELSE IF \E i \in 1..Len(castleStr) : castleStr[i] \notin {"K", "Q", "k", "q", "-"}
    THEN [ok |-> FALSE, rights |-> <<"-">>]
    ELSE [ok |-> TRUE, rights |-> castleStr]

\* strToSquareMap: the square a text names, the zero Square (a1) for a text
\* that names none
strToSquareMap(text) ==
    IF /\ Len(text) = 2
       /\ \E f \in 0..7 : FileString(f) = text[1]
       /\ text[2] \in {"1", "2", "3", "4", "5", "6", "7", "8"}
    THEN NewSquare(CHOOSE f \in 0..7 : FileString(f) = text[1], digitValue(text[2]) - 1)
    ELSE A1

Rank3 == 2
Rank6 == 5

formEnPassant(enPassant) ==
    IF enPassant = <<"-">> THEN [ok |-> TRUE, sq |-> NoSquare]
    ELSE LET sq == strToSquareMap(enPassant)
         IN IF sq = NoSquare \/ ~(Rank(sq) = Rank3 \/ Rank(sq) = Rank6)
            THEN [ok |-> FALSE, sq |-> NoSquare]
            ELSE [ok |-> TRUE, sq |-> sq]

fenTurnMap(text) ==
    IF text = <<"w">> THEN White ELSE IF text = <<"b">> THEN Black ELSE NoColor

\* decodeFEN: parts are the fields of the trimmed text
decodeFEN(parts) ==
    LET failed == [ok |-> FALSE, position |-> StartingPosition, panic |-> FALSE]
    IN IF Len(parts) # 6 THEN failed
       ELSE IF ~fenBoard(parts[1]).ok
       THEN [failed EXCEPT !.panic = fenBoard(parts[1]).panic]
       ELSE IF fenTurnMap(parts[2]) = NoColor THEN failed
       ELSE IF ~formCastleRights(parts[3]).ok THEN failed
       ELSE IF ~formEnPassant(parts[4]).ok THEN failed
       ELSE IF ~Atoi(parts[5]).ok \/ Atoi(parts[5]).value < 0 THEN failed
       ELSE IF ~Atoi(parts[6]).ok \/ Atoi(parts[6]).value < 1 THEN failed
       ELSE [ok |-> TRUE, panic |-> FALSE,
             position |-> NewPosition(fenBoard(parts[1]).board, fenTurnMap(parts[2]),
                                      formCastleRights(parts[3]).rights,
                                      formEnPassant(parts[4]).sq,
                                      Atoi(parts[5]).value, Atoi(parts[6]).value, FALSE)]

\* NewGame(FEN(fen)): a text decodeFEN refuses leaves the game NewGame made,
\* a panic in decodeFEN ends the program before a game is returned, and any
\* other text seeds the game with the decoded position
FEN(fen) ==
    /\ last.op = "NewGame"
    /\ last.arg = fen
    /\ LET decoded == decodeFEN(fen)
       IN IF ~decoded.ok
          THEN /\ UNCHANGED <<nodes, currentMove, pos, outcome, method>>
               /\ last' = [op |-> IF decoded.panic THEN "panic" ELSE "FEN",
                           arg |-> fen, ok |-> FALSE]
          ELSE LET p == [decoded.position EXCEPT !.inCheck = isInCheck(decoded.position)]
                   ns == <<[nodes[rootMove] EXCEPT !.position = p]>>
                   ev == evaluatePositionStatus(ns, p, outcome, method)
               IN /\ nodes' = ns
                  /\ pos' = p
                  /\ outcome' = ev.outcome
                  /\ method' = ev.method
                  /\ UNCHANGED currentMove
                  /\ last' = [op |-> "FEN", arg |-> fen, ok |-> TRUE]
    /\ UNCHANGED cloneVars
    /\ UNCHANGED sharedVars

\* Color.String
ColorString(c) == IF c = White THEN <<"w">> ELSE IF c = Black THEN <<"b">> ELSE <<"-">>

\* Square.String: the file letter and the rank digit
SquareString(sq) == <<FileString(File(sq)), digitChar(Rank(sq) + 1)>>

\* the verb %d for a number that is not negative
RECURSIVE FormatInt(_)
FormatInt(n) ==
    IF n < 10 THEN <<(<<"0", "1", "2", "3", "4", "5", "6", "7", "8", "9">>)[n + 1]>>
    ELSE FormatInt(n \div 10) \o FormatInt(n % 10)

\* Position.String that always writes - for the en-passant square
StringWithoutEnPassant(p) ==
    <<BoardString(p.board), ColorString(p.turn), p.castleRights, <<"-">>,
      FormatInt(p.halfMoveClock), FormatInt(p.moveCount)>>

\* Position.String: the six fields of the FEN text of a position
String(p) ==
    <<BoardString(p.board), ColorString(p.turn), p.castleRights,
      IF p.enPassantSquare # NoSquare THEN SquareString(p.enPassantSquare) ELSE <<"-">>,
      FormatInt(p.halfMoveClock), FormatInt(p.moveCount)>>

\* Position.MarshalText on the position of a game seeded from a text: last
\* keeps the text the game was seeded from and the text written
MarshalText ==
    /\ last.op = "FEN"
    /\ last.ok
    /\ last' = [op |-> "MarshalText", arg |-> <<last.arg, String(pos)>>, ok |-> TRUE]
    /\ UNCHANGED <<nodes, currentMove, pos, outcome, method>>
    /\ UNCHANGED cloneVars
    /\ UNCHANGED sharedVars

(***************************************************************************)
(* Games made from a FEN text: NewGame is called with the option FEN of a  *)
(* text of six fields, or of a text with a field too few or too many.      *)
(***************************************************************************)
\* piece placements: well formed, with a slash or a rank too many or too few,
\* and with ranks that do not describe eight files
FenPlacements ==
    {<<"k", "7", "/", "8", "/", "8", "/", "8", "/", "8", "/", "8", "/", "8", "/", "K", "7">>,    \* k7/8/8/8/8/8/8/K7
     <<"k", "7", "/", "8", "/", "8", "/", "8", "/", "8", "/", "8", "/", "8", "/", "K", "7", "/">>,    \* k7/8/8/8/8/8/8/K7/
     <<"k", "7", "/", "8", "/", "8", "/", "8", "/", "8", "/", "8", "/", "K", "7">>,    \* k7/8/8/8/8/8/K7
     <<"k", "7", "/", "8", "/", "8", "/", "8", "/", "8", "/", "8", "/", "8", "/", "8", "/", "K", "7">>,    \* k7/8/8/8/8/8/8/8/K7
     <<"/", "k", "7", "/", "8", "/", "8", "/", "8", "/", "8", "/", "8", "/", "8", "/", "K", "7">>,    \* /k7/8/8/8/8/8/8/K7
     <<"k", "7", "/", "8", "/", "8", "/", "8", "/", "4", "P", "2", "/", "8", "/", "8", "/", "K", "7">>,    \* k7/8/8/8/4P2/8/8/K7
     <<"k", "7", "/", "8", "/", "8", "/", "8", "/", "4", "P", "3", "P", "/", "8", "/", "8", "/", "K", "7">>,    \* k7/8/8/8/4P3P/8/8/K7
     <<"k", "7", "/", "8", "/", "8", "/", "8", "/", "9", "/", "8", "/", "8", "/", "K", "7">>,    \* k7/8/8/8/9/8/8/K7
     <<"k", "7", "/", "8", "/", "8", "/", "8", "/", "4", "x", "3", "/", "8", "/", "8", "/", "K", "7">>,    \* k7/8/8/8/4x3/8/8/K7
     <<"k", "7", "/", "8", "/", "8", "/", "8", "/", "/", "8", "/", "8", "/", "K", "7">>,    \* k7/8/8/8//8/8/K7
     <<"k", "7", "/", "p", "p", "1", "p", "p", "p", "p", "p", "/", "8", "/", "2", "p", "5", "/", "4", "P", "3", "/", "8", "/", "8", "/", "K", "7">>,    \* k7/pp1ppppp/8/2p5/4P3/8/8/K7
     <<"k", "7", "/", "8", "/", "8", "/", "8", "/", "4", "4", "/", "8", "/", "8", "/", "K", "7">>,    \* k7/8/8/8/44/8/8/K7
     <<"k", "7", "/", "8", "/", "8", "/", "8", "/", "8", "/", "8", "/", "8", "/", "K", "6", "0xC3", "0xA9">>,    \* k7/8/8/8/8/8/8/K6\xc3\xa9
     <<"k", "7", "/", "8", "/", "8", "/", "8", "/", "9", "/", "8", "/", "8", "/", "K", "6", "0xC3", "0xA9">>}    \* k7/8/8/8/9/8/8/K6\xc3\xa9

\* side-to-move fields
FenTurns ==
    {<<"w">>,    \* w
     <<"b">>,    \* b
     <<"c">>}    \* c

\* castling fields
FenCastles ==
    {<<"-">>,    \* -
     <<"K", "Q", "k", "q">>,    \* KQkq
     <<"K", "q">>,    \* Kq
     <<"K", "K", "k", "q">>,    \* KKkq
     <<"K", "x">>}    \* Kx

\* en-passant fields
FenEnPassants ==
    {<<"-">>,    \* -
     <<"e", "3">>,    \* e3
     <<"e", "6">>,    \* e6
     <<"e", "4">>,    \* e4
     <<"c", "1", "2">>,    \* c12
     <<"a", "3">>}    \* a3

\* half-move clock fields
FenHalfMoves ==
    {<<"0">>,    \* 0
     <<"-", "1">>,    \* -1
     <<"x">>}    \* x

\* full-move number fields
FenMoveCounts ==
    {<<"1">>,    \* 1
     <<"0">>,    \* 0
     <<"-", "1">>,    \* -1
     <<"1", "0">>}    \* 10

\* k7/8/8/8/8/8/8/K7 w - - 0 1
FenWellFormed ==
    <<<<"k", "7", "/", "8", "/", "8", "/", "8", "/", "8", "/", "8", "/", "8", "/", "K", "7">>,
      <<"w">>, <<"-">>, <<"-">>, <<"0">>, <<"1">>>>

FenTexts ==
    {<<b, t, c, e, h, n>> : b \in FenPlacements, t \in FenTurns, c \in FenCastles,
                            e \in FenEnPassants, h \in FenHalfMoves, n \in FenMoveCounts}
    \cup {SubSeq(FenWellFormed, 1, 5), Append(FenWellFormed, <<"1">>),
          <<FenWellFormed[1], <<>>, FenWellFormed[2], FenWellFormed[3], FenWellFormed[4],
            FenWellFormed[5], FenWellFormed[6]>>}

InitFEN ==
    /\ nodes = <<[parent |-> 0, children |-> <<>>, s1 |-> 0, s2 |-> 0,
                  promo |-> NoPieceType, tags |-> {}, position |-> StartingPosition]>>
    /\ currentMove = rootMove
    /\ pos = StartingPosition
    /\ outcome = NoOutcome
    /\ method = NoMethod
    /\ \E fen \in FenTexts : last = [op |-> "NewGame", arg |-> fen, ok |-> TRUE]
    /\ clone = NoClone
    /\ tagMaps = << <<>> >>
    /\ SharedInit

NextFEN ==
    \/ \E fen \in FenTexts : FEN(fen)
    \/ MarshalText

SpecFEN == InitFEN /\ [][NextFEN]_vars

(***************************************************************************)
(* The binary form of a position: the board (twelve sets of squares, one   *)
(* for each piece), the half-move clock in 8 bits, the full-move number in *)
(* 16 bits, the en-passant square and a byte of flags.                     *)
(***************************************************************************)
bitsCastleWhiteKing == 1
bitsCastleWhiteQueen == 2
bitsCastleBlackKing == 4
bitsCastleBlackQueen == 8
bitsTurn == 16
bitsHasEnPassant == 32

\* b & bit # 0
HasBit(b, bit) == (b \div bit) % 2 = 1

\* Board.MarshalBinary and Board.UnmarshalBinary
BoardMarshalBinary(b) == [p \in 1..12 |-> {sq \in Squares : b[sq] = p}]

BoardUnmarshalBinary(data) ==
    [sq \in Squares |-> IF \E p \in 1..12 : sq \in data[p]
                        THEN CHOOSE p \in 1..12 : sq \in data[p]
                        ELSE NoPiece]

\* Position.MarshalBinary: uint8(halfMoveClock) and uint16(moveCount) keep the
\* low 8 and 16 bits
MarshalBinary(p) ==
    [board |-> BoardMarshalBinary(p.board),
     halfMove |-> p.halfMoveClock % 256,
     moveCount |-> p.moveCount % 65536,
     enPassant |-> p.enPassantSquare,
     flags |-> (IF CanCastle(p.castleRights, White, KingSideCastle) THEN bitsCastleWhiteKing ELSE 0)
             + (IF CanCastle(p.castleRights, White, QueenSideCastle) THEN bitsCastleWhiteQueen ELSE 0)
             + (IF CanCastle(p.castleRights, Black, KingSideCastle) THEN bitsCastleBlackKing ELSE 0)
             + (IF CanCastle(p.castleRights, Black, QueenSideCastle) THEN bitsCastleBlackQueen ELSE 0)
             + (IF p.turn = Black THEN bitsTurn ELSE 0)
             + (IF p.enPassantSquare # NoSquare THEN bitsHasEnPassant ELSE 0)]

\* Position.UnmarshalBinary into an empty Position
UnmarshalBinary(data) ==
    LET rights == (IF HasBit(data.flags, bitsCastleWhiteKing) THEN <<"K">> ELSE <<>>)
                  \o (IF HasBit(data.flags, bitsCastleWhiteQueen) THEN <<"Q">> ELSE <<>>)
                  \o (IF HasBit(data.flags, bitsCastleBlackKing) THEN <<"k">> ELSE <<>>)
                  \o (IF HasBit(data.flags, bitsCastleBlackQueen) THEN <<"q">> ELSE <<>>)
        cp == NewPosition(BoardUnmarshalBinary(data.board),
                          IF HasBit(data.flags, bitsTurn) THEN Black ELSE White,
                          IF rights = <<>> THEN <<"-">> ELSE rights,
                          IF HasBit(data.flags, bitsHasEnPassant) THEN data.enPassant
                          ELSE NoSquare,
                          data.halfMove, data.moveCount, FALSE)
    IN [cp EXCEPT !.inCheck = isInCheck(cp)]

\* cp.UnmarshalBinary(b) of the bytes b that MarshalBinary wrote for the
\* position of a game seeded from a text: last holds cp
BinaryRoundTrip ==
    /\ last.op = "FEN"
    /\ last.ok
    /\ last' = [op |-> "UnmarshalBinary", arg |-> UnmarshalBinary(MarshalBinary(pos)),
                ok |-> TRUE]
    /\ UNCHANGED <<nodes, currentMove, pos, outcome, method>>
    /\ UNCHANGED cloneVars
    /\ UNCHANGED sharedVars

\* the texts: kings and pawns, both turns, castling rights, an en-passant
\* square, and clocks at and past the widths of 8 and 16 bits
BinaryTexts ==
    {<<b, t, c, e, h, n>> :
        b \in {<<"k", "7", "/", "8", "/", "8", "/", "8", "/", "8", "/", "8", "/", "8", "/", "K", "7">>,
               <<"r", "3", "k", "2", "r", "/", "8", "/", "8", "/", "8", "/", "4", "P", "3", "/",
                 "8", "/", "8", "/", "R", "3", "K", "2", "R">>},
        t \in {<<"w">>, <<"b">>},
        c \in {<<"-">>, <<"K", "Q", "k", "q">>, <<"K", "q">>},
        e \in {<<"-">>, <<"e", "3">>},
        h \in {<<"0">>, <<"2", "5", "5">>, <<"2", "5", "6">>},
        n \in {<<"1">>, <<"6", "5", "5", "3", "5">>, <<"6", "5", "5", "3", "6">>}}

InitBinary ==
    /\ nodes = <<[parent |-> 0, children |-> <<>>, s1 |-> 0, s2 |-> 0,
                  promo |-> NoPieceType, tags |-> {}, position |-> StartingPosition]>>
    /\ currentMove = rootMove
    /\ pos = StartingPosition
    /\ outcome = NoOutcome
    /\ method = NoMethod
    /\ \E fen \in BinaryTexts : last = [op |-> "NewGame", arg |-> fen, ok |-> TRUE]
    /\ clone = NoClone
    /\ tagMaps = << <<>> >>
    /\ SharedInit

NextBinary ==
    \/ \E fen \in BinaryTexts : FEN(fen)
    \/ BinaryRoundTrip

SpecBinary == InitBinary /\ [][NextBinary]_vars

(***************************************************************************)
(* The legal-move cache.  pos is the Position object the game and its root *)
(* point to; validMoves is the field of that object: the slice (its array  *)
(* and the moves in it) or nil.  Goroutines call ValidMoves on the object, *)
(* and ChangeTurn and UnmarshalText are called on it.                      *)
(***************************************************************************)
Callers == {1, 2}

\* Position.ValidMoves up to the test of the cache: a filled cache is copied
\* and returned, an empty one sends the caller on to CalcMoves
ValidMovesCall(c) ==
    /\ IF c \in DOMAIN goroutines THEN goroutines[c].pc = "done" ELSE TRUE
    /\ goroutines' =
         (c :> (IF validMoves # nil THEN [pc |-> "done", result |-> validMoves.moves]
                ELSE [pc |-> "calc", result |-> {}])) @@ goroutines
    /\ last' = [op |-> "ValidMoves", arg |-> c, ok |-> validMoves # nil]
    /\ UNCHANGED <<nodes, currentMove, pos, outcome, method, validMoves, rankBuffer, book>>
    /\ UNCHANGED cloneVars

\* Position.ValidMoves from CalcMoves on: the slice CalcMoves made is stored
\* in the cache and a copy is returned
ValidMovesFill(c) ==
    /\ c \in DOMAIN goroutines
    /\ goroutines[c].pc = "calc"
    /\ validMoves' = [array |-> c, moves |-> CalcMoves(pos)]
    /\ goroutines' = [goroutines EXCEPT ![c] = [pc |-> "done", result |-> CalcMoves(pos)]]
    /\ last' = [op |-> "ValidMoves", arg |-> c, ok |-> TRUE]
    /\ UNCHANGED <<nodes, currentMove, pos, outcome, method, rankBuffer, book>>
    /\ UNCHANGED cloneVars

\* Position.ChangeTurn: the turn of the receiver is set and the receiver is
\* returned; the game and its root point to the receiver
ChangeTurn ==
    /\ pos' = [pos EXCEPT !.turn = Other(pos.turn)]
    /\ nodes' = [nodes EXCEPT ![rootMove].position = pos']
    /\ last' = [op |-> "ChangeTurn", arg |-> "receiver", ok |-> TRUE]
    /\ UNCHANGED <<currentMove, outcome, method>>
    /\ UNCHANGED cloneVars
    /\ UNCHANGED sharedVars

\* Position.UnmarshalText: the fields of the receiver are set from the text
UnmarshalText(fen) ==
    /\ ~decodeFEN(fen).panic
    /\ IF ~decodeFEN(fen).ok THEN UNCHANGED <<nodes, pos>>
       ELSE /\ pos' = [decodeFEN(fen).position EXCEPT
                          !.inCheck = isInCheck(decodeFEN(fen).position)]
            /\ nodes' = [nodes EXCEPT ![rootMove].position = pos']
    /\ last' = [op |-> "UnmarshalText", arg |-> fen, ok |-> decodeFEN(fen).ok]
    /\ UNCHANGED <<currentMove, outcome, method>>
    /\ UNCHANGED cloneVars
    /\ UNCHANGED sharedVars

\* k7/8/8/8/8/8/8/K7 w - - 0 1, and the same text without its last field
CacheTexts == {FenWellFormed, SubSeq(FenWellFormed, 1, 5)}

\* k7/8/1K6/8/8/8/8/7R w - - 0 1
InitCache == SeedFEN(FenRook(0))

NextCache ==
    \/ \E c \in Callers : ValidMovesCall(c)
    \/ \E c \in Callers : ValidMovesFill(c)
    \/ ChangeTurn
    \/ \E fen \in CacheTexts : UnmarshalText(fen)

SpecCache == InitCache /\ [][NextCache]_vars

(***************************************************************************)
(* Games loaded from a PGN text with a variation: the text has up to two   *)
(* main-line moves and, before the first or after one of them, a variation *)
(* of one move.                                                            *)
(***************************************************************************)
\* most nodes of a loaded game that is played on
MaxVariationNodes == 4

\* NewGame(PGN(r)): a text the parser refuses leaves the game NewGame made,
\* a panic in the parser ends the program before a game is returned, and
\* any other text gives the game Game.copy takes from the parser's game
PGN(text) ==
    /\ last.op = "NewGame"
    /\ last.arg = text
    /\ \E g \in {Parse(text)} :
          IF ~g.ok
          THEN /\ UNCHANGED <<nodes, currentMove, pos, outcome, method>>
               /\ last' = [op |-> IF g.panic THEN "panic" ELSE "PGN",
                           arg |-> text, ok |-> FALSE]
          ELSE /\ nodes' = g.nodes
               /\ currentMove' = g.currentMove
               /\ pos' = g.pos
               /\ outcome' = g.outcome
               /\ method' = g.method
               /\ last' = [op |-> "PGN", arg |-> text, ok |-> TRUE]
    /\ UNCHANGED cloneVars
    /\ UNCHANGED sharedVars

VariationMoveTexts ==
    {San(Knight, "", 21, FALSE, NoPieceType, FALSE),     \* Nf3
     San(Knight, "", 18, FALSE, NoPieceType, FALSE),     \* Nc3
     San(Knight, "", 45, FALSE, NoPieceType, FALSE)}     \* Nf6

\* the texts: the main line ms with the variation v put after its k-th move
VariationTexts ==
    UNION {{[moves |-> SubSeq(ms, 1, k) \o <<v>> \o SubSeq(ms, k + 1, Len(ms)),
             result |-> "*"] :
              k \in 0..Len(ms),
              v \in {[black |-> b, moves |-> <<t>>] : b \in BOOLEAN, t \in VariationMoveTexts}} :
           ms \in UNION {[1..n -> VariationMoveTexts] : n \in 0..2}}

InitVariation ==
    /\ nodes = <<[parent |-> 0, children |-> <<>>, s1 |-> 0, s2 |-> 0,
                  promo |-> NoPieceType, tags |-> {}, position |-> StartingPosition]>>
    /\ currentMove = rootMove
    /\ pos = StartingPosition
    /\ outcome = NoOutcome
    /\ method = NoMethod
    /\ \E text \in VariationTexts : last = [op |-> "NewGame", arg |-> text, ok |-> TRUE]
    /\ clone = NoClone
    /\ tagMaps = << <<>> >>
    /\ SharedInit

NextVariation ==
    \/ \E text \in VariationTexts : PGN(text)
    \/ /\ last.op \in {"PGN", "PushMove"}
       /\ Len(nodes) < MaxVariationNodes
       /\ \E t \in VariationMoveTexts : PushMove(t, TRUE)

SpecVariation == InitVariation /\ [][NextVariation]_vars

(***************************************************************************)
(* decodeFEN called by two goroutines.  fenBoard stores the ranks of the   *)
(* placement in the package variable rankBuffer and reads them from there  *)
(* to build the board.                                                     *)
(***************************************************************************)
\* decodeFEN up to the end of the splitting loop of fenBoard: the ranks of
\* the caller's placement are stored in rankBuffer
DecodeSplit(c, fen) ==
    /\ c \notin DOMAIN goroutines
    /\ LET split == fenSplitFrom(fen[1], 1, 1, <<>>)
       IN IF Len(fen) # 6 \/ ~split.ok \/ Len(split.ranks) # 8
          THEN /\ goroutines' = (c :> [pc |-> "done", fen |-> fen, ok |-> FALSE,
                                       position |-> StartingPosition]) @@ goroutines
               /\ rankBuffer' = [i \in 1..8 |-> IF Len(fen) = 6 /\ i <= Len(split.ranks)
                                                THEN split.ranks[i] ELSE rankBuffer[i]]
          ELSE /\ goroutines' = (c :> [pc |-> "ranks", fen |-> fen, ok |-> FALSE,
                                       position |-> StartingPosition]) @@ goroutines
               /\ rankBuffer' = split.ranks
    /\ last' = [op |-> "decodeFEN", arg |-> c, ok |-> FALSE]
    /\ UNCHANGED <<nodes, currentMove, pos, outcome, method, validMoves, book>>
    /\ UNCHANGED cloneVars

\* decodeFEN from the second loop of fenBoard on: the board is built from
\* the ranks rankBuffer holds, the other fields from the caller's text
DecodeRanks(c) ==
    /\ c \in DOMAIN goroutines
    /\ goroutines[c].pc = "ranks"
    /\ LET b == fenBoardRanks(rankBuffer)
           own == decodeFEN(goroutines[c].fen)
       IN goroutines' =
            [goroutines EXCEPT ![c] =
               [pc |-> "done", fen |-> @.fen, ok |-> b.ok /\ own.ok,
                position |-> IF b.ok /\ own.ok THEN [own.position EXCEPT !.board = b.board]
                             ELSE StartingPosition]]
    /\ last' = [op |-> "decodeFEN", arg |-> c, ok |-> TRUE]
    /\ UNCHANGED <<nodes, currentMove, pos, outcome, method, validMoves, rankBuffer, book>>
    /\ UNCHANGED cloneVars

\* the texts the goroutines decode: three placements, two turns
ConcurrentTexts ==
    {<<b, t, <<"-">>, <<"-">>, <<"0">>, <<"1">>>> :
        b \in {<<"k", "7", "/", "8", "/", "8", "/", "8", "/", "8", "/", "8", "/", "8", "/", "K", "7">>,
               <<"7", "k", "/", "8", "/", "8", "/", "8", "/", "8", "/", "8", "/", "8", "/", "7", "K">>,
               <<"k", "7", "/", "8", "/", "8", "/", "8", "/", "8", "/", "8", "/", "K", "7">>},
        t \in {<<"w">>, <<"b">>}}

InitConcurrent == NewGameState(StartingPosition, NoOutcome, NoMethod)

NextConcurrent ==
    \/ \E c \in Callers, fen \in ConcurrentTexts : DecodeSplit(c, fen)
    \/ \E c \in Callers : DecodeRanks(c)

SpecConcurrent == InitConcurrent /\ [][NextConcurrent]_vars

(***************************************************************************)
(* Loading an opening book.  The data of a source is its entries of 16     *)
(* bytes, each modelled by its key, and the bytes after the last whole     *)
(* entry.  A bytes source and a reader source keep an index into the data; *)
(* a file source opens the file anew for every Read.                       *)
(***************************************************************************)
\* most entries in the data of a source
MaxBookLen == 2

\* most entries the loop of LoadFromSource is followed for
MaxBookEntries == 4

\* sort.Slice by key
RECURSIVE SortByKey(_)
SortByKey(entries) ==
    IF entries = <<>> THEN <<>>
    ELSE LET least == CHOOSE i \in 1..Len(entries) :
                          \A j \in 1..Len(entries) : entries[i] <= entries[j]
         IN <<entries[least]>>
              \o SortByKey(SubSeq(entries, 1, least - 1)
                             \o SubSeq(entries, least + 1, Len(entries)))

\* BytesBookSource.Read and ReaderBookSource.Read of 16 bytes: the entry at
\* the index, or EOF at the end of the data
IndexedRead(b) ==
    IF b.index >= Len(b.data) THEN [eof |-> TRUE, entry |-> 0, index |-> b.index]
    ELSE [eof |-> FALSE, entry |-> b.data[b.index + 1], index |-> b.index + 1]

\* FileBookSource.Read of 16 bytes: the file is opened and io.ReadFull reads
\* from its start; EOF only for a file without a byte
FileRead(b) ==
    IF b.data = <<>> THEN [eof |-> TRUE, entry |-> 0, index |-> b.index]
    ELSE [eof |-> FALSE, entry |-> b.data[1], index |-> b.index]

\* LoadFromSource up to its loop: a size that is no multiple of 16 is an error
LoadFromSource(kind, data, rest) ==
    /\ book = NoBook
    /\ book' = [pc |-> IF (16 * Len(data) + rest) % 16 # 0 THEN "error" ELSE "reading",
                kind |-> kind, data |-> data, rest |-> rest, index |-> 0, entries |-> <<>>]
    /\ last' = [op |-> "LoadFromSource", arg |-> kind, ok |-> (16 * Len(data) + rest) % 16 = 0]
    /\ UNCHANGED <<nodes, currentMove, pos, outcome, method, validMoves, goroutines, rankBuffer>>
    /\ UNCHANGED cloneVars

\* one turn of the loop of LoadFromSource: at EOF the entries are sorted and
\* returned, otherwise the entry read is appended
ReadEntry ==
    /\ book.pc = "reading"
    /\ Len(book.entries) < MaxBookEntries
    /\ LET r == IF book.kind = "file" THEN FileRead(book) ELSE IndexedRead(book)
       IN book' = IF r.eof
                  THEN [book EXCEPT !.pc = "done", !.entries = SortByKey(@)]
                  ELSE [book EXCEPT !.index = r.index, !.entries = Append(@, r.entry)]
    /\ last' = [op |-> "Read", arg |-> book.kind, ok |-> TRUE]
    /\ UNCHANGED <<nodes, currentMove, pos, outcome, method, validMoves, goroutines, rankBuffer>>
    /\ UNCHANGED cloneVars

InitBook == NewGameState(StartingPosition, NoOutcome, NoMethod)

NextBook ==
    \/ \E kind \in {"bytes", "reader", "file"},
          data \in UNION {[1..n -> 1..3] : n \in 0..MaxBookLen},
          rest \in {0, 8} : LoadFromSource(kind, data, rest)
    \/ ReadEntry

SpecBook == InitBook /\ [][NextBook]_vars

(***************************************************************************)
(* Properties.                                                             *)
(***************************************************************************)
\* the nodes reachable from the root through children links
RECURSIVE treeFrom(_, _)
treeFrom(ns, n) ==
    {n} \cup UNION {treeFrom(ns, ns[n].children[i]) : i \in 1..Len(ns[n].children)}

TreeNodes == treeFrom(nodes, rootMove)

\* the nodes of the main line: the root and, from it, every first child
MainLine(ns) == {n \in treeFrom(ns, rootMove) : isMainLine(ns, n)}

\* how often the state of position p (board, side to move, castling rights,
\* en-passant square) occurs among the positions of the main line
Occurrences(ns, p) ==
    Cardinality({n \in MainLine(ns) :
                   /\ ns[n].position.board = p.board
                   /\ ns[n].position.turn = p.turn
                   /\ ns[n].position.castleRights = p.castleRights
                   /\ ns[n].position.enPassantSquare = p.enPassantSquare})

Evaluated == last.op \in {"NewGame", "PushMove"} /\ last.ok

\* C1: after a successful PushMove and after seeding from FEN, a current
\* position without a legal move decides the game: checkmate, won by the
\* side not to move, when the side to move is in check, and a draw by
\* stalemate when it is not, whatever automatic draw holds as well.
C1_NoMoveDecides ==
    (Evaluated /\ ~hasMove(pos)) =>
        IF isInCheck(pos)
        THEN /\ method = Checkmate
             /\ outcome = (IF pos.turn = White THEN BlackWon ELSE WhiteWon)
        ELSE /\ method = Stalemate
             /\ outcome = Draw

\* the automatic draw that is first in the order fivefold repetition,
\* seventy-five moves, insufficient material
FirstAutomaticDraw(ns, p) ==
    IF Occurrences(ns, p) >= 5 THEN FivefoldRepetition
    ELSE IF p.halfMoveClock >= 150 THEN SeventyFiveMoveRule
    ELSE IF ~hasSufficientMaterial(p.board) THEN InsufficientMaterial
    ELSE NoMethod

C2_Seeded ==
    (last.op = "NewGame" /\ hasMove(pos)) =>
        IF FirstAutomaticDraw(nodes, pos) = NoMethod
        THEN outcome = NoOutcome
        ELSE outcome = Draw /\ method = FirstAutomaticDraw(nodes, pos)

C2_Pushed ==
    (outcome = NoOutcome /\ last'.op = "PushMove" /\ last'.ok /\ hasMove(pos')) =>
        IF FirstAutomaticDraw(nodes', pos') = NoMethod
        THEN outcome' = NoOutcome
        ELSE outcome' = Draw /\ method' = FirstAutomaticDraw(nodes', pos')

\* C2: when the evaluated position is neither checkmate nor stalemate and
\* the game was undecided, outcome and method are those of the first
\* automatic draw that holds, and the game stays undecided when none holds.
C2_FirstMatchWins == []C2_Seeded /\ [][C2_Pushed]_vars

\* C3: after a successful PushMove the cursor is a node of the tree: a move
\* equal to an existing child of the cursor reuses that child.
C3_CursorInTree == (last.op = "PushMove" /\ last.ok) => currentMove \in TreeNodes

\* C4: the root has no parent, and the position of every other node is the
\* position of its parent updated by the node's move.
C4_NodePositions ==
    /\ nodes[rootMove].parent = 0
    /\ \A n \in 2..Len(nodes) :
          /\ nodes[n].parent # 0
          /\ nodes[n].position = Update(nodes[nodes[n].parent].position, nodes[n])

ClaimMethods == {DrawOffer, ThreefoldRepetition, FiftyMoveRule}

\* C5: once a draw has been claimed, pushing moves and navigating change
\* neither the outcome nor the method.
C5_ClaimTerminal ==
    [][(/\ outcome = Draw
        /\ method \in ClaimMethods
        /\ last'.op \in {"PushMove", "GoBack", "GoForward", "NavigateToMainLine"})
       => (outcome' = outcome /\ method' = method)]_vars

\* C6: on a decided game Resign and Draw leave outcome and method as they
\* were.
C6_DecidedKept ==
    [][(outcome # NoOutcome /\ last'.op \in {"Resign", "Draw"})
       => (outcome' = outcome /\ method' = method)]_vars

\* C7: a claim of threefold repetition is accepted only when the current
\* position occurs at least three times on the main line, and is rejected
\* when it occurs exactly twice, wherever the cursor stands.
C7_ThreefoldNeedsThree ==
    (last.op = "Draw" /\ last.arg = ThreefoldRepetition) =>
        /\ last.ok => Occurrences(nodes, pos) >= 3
        /\ Occurrences(nodes, pos) = 2 => ~last.ok

\* a claim of threefold repetition accepted after the cursor went back from
\* the end of the main line
C7_AcceptedAfterGoBack ==
    /\ last = [op |-> "Draw", arg |-> ThreefoldRepetition, ok |-> TRUE]
    /\ Len(nodes[currentMove].children) > 0
    /\ Occurrences(nodes, pos) >= 3

\* the methods and states Draw accepts
ClaimHolds(ns, p, m) ==
    \/ m = DrawOffer
    \/ m = ThreefoldRepetition /\ Occurrences(ns, p) >= 3
    \/ m = FiftyMoveRule /\ p.halfMoveClock >= 100

\* C8: Draw(m) reports no error exactly for a draw offer, a threefold
\* repetition with three occurrences and the fifty-move rule with a clock of
\* at least 100; a rejected claim leaves outcome, method, tree, cursor and
\* current position as they were.
C8_DrawExactly ==
    [][last'.op = "Draw" =>
         /\ last'.ok <=> ClaimHolds(nodes, pos, last'.arg)
         /\ ~last'.ok => UNCHANGED <<outcome, method, nodes, currentMove, pos>>]_vars

\* a fifty-move claim rejected at a clock of 99
C8_RejectedAtNinetyNine ==
    /\ last = [op |-> "Draw", arg |-> FiftyMoveRule, ok |-> FALSE]
    /\ pos.halfMoveClock = 99

\* C9: Resign(c) on an undecided game, c White or Black, makes the other
\* colour the winner by resignation; Resign(NoColor) and Resign on a decided
\* game change neither outcome nor method.
C9_Resign ==
    [][last'.op = "Resign" =>
         IF outcome = NoOutcome /\ last'.arg \in {White, Black}
         THEN /\ outcome' = (IF last'.arg = White THEN BlackWon ELSE WhiteWon)
              /\ method' = Resignation
         ELSE outcome' = outcome /\ method' = method]_vars

\* White has resigned an undecided game
C9_WhiteResigned ==
    /\ last = [op |-> "Resign", arg |-> White, ok |-> TRUE]
    /\ outcome = BlackWon
    /\ method = Resignation

\* C10: along a main line pushed from a new game the game stays undecided
\* while the position reached has occurred at most four times on the main
\* line, and the move that makes its fifth occurrence draws the game by
\* fivefold repetition.
C10_FivefoldAutomatic ==
    [][(outcome = NoOutcome /\ last'.op = "PushMove" /\ last'.ok) =>
         IF Occurrences(nodes', pos') >= 5
         THEN outcome' = Draw /\ method' = FivefoldRepetition
         ELSE outcome' = NoOutcome]_vars

\* the fifth occurrence of the starting position has drawn the game
C10_FifthOccurrence ==
    /\ last = [op |-> "PushMove", arg |-> FALSE, ok |-> TRUE]
    /\ Occurrences(nodes, pos) = 5
    /\ pos.board = StartingPosition.board
    /\ outcome = Draw
    /\ method = FivefoldRepetition

\* what the seventy-five-move rule leaves after a push onto a position that
\* is neither checkmate nor stalemate
SeventyFiveApplied ==
    IF pos'.halfMoveClock >= 150
    THEN outcome' = Draw /\ method' = SeventyFiveMoveRule
    ELSE method' # SeventyFiveMoveRule

PushedNewMove ==
    /\ last'.op = "PushMove" /\ last'.ok
    /\ Len(nodes') = Len(nodes) + 1
    /\ \A i \in 1..Len(nodes[currentMove].children) :
          LET c == nodes[nodes[currentMove].children[i]]
              n == nodes'[Len(nodes')]
          IN c.s1 # n.s1 \/ c.s2 # n.s2 \/ c.promo # n.promo

\* C12: a pushed move that is not among the cursor's children becomes one
\* new child of the cursor and the cursor moves to it; without ForceMainline
\* it is the last child and every first child stays first, with
\* ForceMainline it is the first child and the former children follow in
\* their order; no node of the tree ever leaves the tree.
C12_NewChild ==
    [][/\ treeFrom(nodes, rootMove) \subseteq treeFrom(nodes', rootMove)
       /\ PushedNewMove =>
            LET ch == nodes[currentMove].children
                id == Len(nodes')
            IN /\ currentMove' = id
               /\ nodes'[id].parent = currentMove
               /\ \A n \in 1..Len(nodes) :
                     n # currentMove => nodes'[n].children = nodes[n].children
               /\ \A text \in MoveTexts, forceMainline \in BOOLEAN :
                     PushMove(text, forceMainline) =>
                        nodes'[currentMove].children =
                           (IF forceMainline THEN <<id>> \o ch ELSE Append(ch, id))
               /\ nodes'[currentMove].children \in {<<id>> \o ch, Append(ch, id)}]_vars

\* a move pushed with ForceMainline stands before its elder sibling
C12_PushedToFront ==
    /\ last.op = "PushMove" /\ last.ok
    /\ currentMove = Len(nodes)
    /\ nodes[currentMove].parent # 0
    /\ Len(nodes[nodes[currentMove].parent].children) >= 2
    /\ nodes[nodes[currentMove].parent].children[1] = currentMove

\* C13: GoBack moves the cursor to its parent and reports true, and at the
\* root reports false and leaves cursor and current position; GoForward
\* moves the cursor to the first child and reports true, and at a leaf
\* reports false and leaves cursor and current position; neither changes the
\* tree.
C13_GoBackGoForward ==
    [][/\ last'.op = "GoBack" =>
            /\ nodes' = nodes
            /\ IF nodes[currentMove].parent # 0
               THEN last'.ok /\ currentMove' = nodes[currentMove].parent
               ELSE ~last'.ok /\ currentMove' = currentMove /\ pos' = pos
       /\ last'.op = "GoForward" =>
            /\ nodes' = nodes
            /\ IF Len(nodes[currentMove].children) > 0
               THEN last'.ok /\ currentMove' = nodes[currentMove].children[1]
               ELSE ~last'.ok /\ currentMove' = currentMove /\ pos' = pos]_vars

\* GoForward has taken the first of two children
C13_ForwardAtBranch ==
    /\ last = [op |-> "GoForward", arg |-> FALSE, ok |-> TRUE]
    /\ Len(nodes[nodes[currentMove].parent].children) >= 2
    /\ nodes[nodes[currentMove].parent].children[1] = currentMove

\* the nearest node, going up from n, that is on the main line
RECURSIVE NearestOnMainLine(_, _)
NearestOnMainLine(ns, n) ==
    IF ns[n].parent = 0 \/ isMainLine(ns, n) THEN n
    ELSE NearestOnMainLine(ns, ns[n].parent)

GameView(ns, maps, root, cur, p, tags) ==
    [tree |-> {<<n, ns[n]>> : n \in treeFrom(ns, root)},
     moves |-> movesFrom(ns, root),
     positions |-> positionsFrom(ns, root),
     pos |-> p,
     tagPairs |-> maps[tags]]

\* C15: the clone's root node, cursor node and tag pairs are objects of its
\* own, and a PushMove or AddTagPair on the game or on the clone leaves the
\* tree, moves, positions, current position and tag pairs of the other as
\* they were.
C15_CloneIsDeep ==
    [][/\ clone'.made =>
            /\ clone'.rootMove # rootMove
            /\ clone'.currentMove # currentMove'
            /\ clone'.tagPairs # tagPairs
       /\ (clone.made /\ last'.op \in {"PushMove", "AddTagPair"}) =>
            GameView(nodes', tagMaps', clone'.rootMove, clone'.currentMove,
                     clone'.pos, clone'.tagPairs)
              = GameView(nodes, tagMaps, clone.rootMove, clone.currentMove,
                         clone.pos, clone.tagPairs)
       /\ (clone.made /\ last'.op \in {"ClonePushMove", "CloneAddTagPair"}) =>
            GameView(nodes', tagMaps', rootMove, currentMove', pos', tagPairs)
              = GameView(nodes, tagMaps, rootMove, currentMove, pos, tagPairs)]_vars

\* the last node of the main line
LastOfMainLine(ns) ==
    IF Moves(ns) = <<>> THEN rootMove ELSE Moves(ns)[Len(Moves(ns))]

\* C16: in a game loaded from a valid PGN text the cursor is the last move
\* of the main line, the current position is the position after that move,
\* and there is one position more than there are moves.
C16_LoadedAtEnd ==
    last.op = "PGN" =>
        /\ currentMove = LastOfMainLine(nodes)
        /\ pos = nodes[LastOfMainLine(nodes)].position
        /\ Len(Positions(nodes)) = Len(Moves(nodes)) + 1

\* the four outcomes of a game
Outcomes == {NoOutcome, WhiteWon, BlackWon, Draw}

\* C17: the outcome of a game built with a FEN or PGN option is one of the
\* four outcomes, and a game loaded from a PGN text without a result token
\* is undecided.
C17_OutcomeKnown ==
    /\ outcome \in Outcomes
    /\ (last.op = "PGN" /\ ~last.arg) => outcome = NoOutcome

\* the castling rights a text of rights holds
Rights(cr) == {cr[i] : i \in 1..Len(cr)} \cap {"K", "Q", "k", "q"}

\* the rights the move m, played on the position p, takes away: both of a
\* side whose king moves, and the one of a rook home square the move leaves
\* or arrives on
Revoked(p, m) ==
    {x \in {"K", "Q", "k", "q"} :
        \/ x \in {"K", "Q"} /\ p.board[m.s1] = Piece(White, King)
        \/ x \in {"k", "q"} /\ p.board[m.s1] = Piece(Black, King)
        \/ x = "K" /\ H1 \in {m.s1, m.s2}
        \/ x = "Q" /\ A1 \in {m.s1, m.s2}
        \/ x = "k" /\ H8 \in {m.s1, m.s2}
        \/ x = "q" /\ A8 \in {m.s1, m.s2}}

\* C18: the position after a move has the castling rights of the position
\* before it less those of a king that moved and of a rook home square the
\* move left or reached, in the order they had, and "-" when none remains.
C18_CastleRights ==
    [][(last'.op = "PushMove" /\ last'.ok) =>
         LET m == nodes'[Len(nodes')]
             kept == Rights(pos.castleRights) \ Revoked(pos, m)
         IN /\ Rights(pos'.castleRights) = kept
            /\ pos'.castleRights =
                 (IF kept = {} THEN <<"-">>
                  ELSE SelectSeq(pos.castleRights, LAMBDA x : x \in kept))]_vars

\* a rook has taken the rook on a8: both queen-side rights are gone
C18_RookTaken ==
    /\ last = [op |-> "PushMove", arg |-> FALSE, ok |-> TRUE]
    /\ nodes[currentMove].s1 = A1 /\ nodes[currentMove].s2 = A8
    /\ nodes[nodes[currentMove].parent].position.castleRights = <<"K", "Q", "k", "q">>
    /\ pos.castleRights = <<"K", "k">>

\* the ranks of a placement: the texts its slashes separate
RECURSIVE ranksOf(_)
ranksOf(str) ==
    IF ~Contains(str, "/") THEN <<str>>
    ELSE LET i == CHOOSE k \in 1..Len(str) :
                      str[k] = "/" /\ \A j \in 1..(k - 1) : str[j] # "/"
         IN <<SubSeq(str, 1, i - 1)>> \o ranksOf(SubSeq(str, i + 1, Len(str)))

\* a rank describes 8 files: piece letters and digits 1..8 that add up to 8
RECURSIVE filesOf(_)
filesOf(rank) ==
    IF rank = <<>> THEN 0
    ELSE filesOf(Tail(rank)) + (IF isDigit(Head(rank)) THEN digitValue(Head(rank)) ELSE 1)

EightFiles(rank) ==
    /\ \A i \in 1..Len(rank) :
          rank[i] \in {"1", "2", "3", "4", "5", "6", "7", "8"}
            \/ \E p \in 1..12 : pieceChar(p) = rank[i]
    /\ filesOf(rank) = 8

\* the texts C19 lists
Malformed(fen) ==
    \/ Len(fen) # 6
    \/ /\ Len(fen) = 6
       /\ \/ Len(ranksOf(fen[1])) # 8
          \/ \E i \in 1..Len(ranksOf(fen[1])) : ~EightFiles(ranksOf(fen[1])[i])
          \/ fen[2] \notin {<<"w">>, <<"b">>}
          \/ \E i, j \in 1..Len(fen[3]) :
                i # j /\ fen[3][i] = fen[3][j] /\ fen[3][i] \in {"K", "Q", "k", "q"}
          \/ \E i \in 1..Len(fen[3]) : fen[3][i] \notin {"K", "Q", "k", "q", "-"}
          \/ Atoi(fen[5]).ok /\ Atoi(fen[5]).value < 0
          \/ Atoi(fen[6]).ok /\ Atoi(fen[6]).value < 1

\* C19: decoding fails for a text that has not exactly 6 fields, whose
\* placement is not exactly 8 ranks of 8 files each, whose turn is neither w
\* nor b, whose castling field repeats a letter or holds a character outside
\* KQkq-, whose half-move clock is negative or whose full-move number is
\* below 1.
C19_MalformedRefused ==
    (last.op = "FEN" /\ Malformed(last.arg)) => ~last.ok

\* the text names a square of the rank whose digit is given
NamesSquareOn(text, digit) ==
    /\ Len(text) = 2
    /\ \E f \in 0..7 : FileString(f) = text[1]
    /\ text[2] = digit

\* C20: a decoded text has an en-passant field that is - or names a square
\* of rank 3 with Black to move or a square of rank 6 with White to move.
C20_EnPassantForSideNotToMove ==
    (last.op = "FEN" /\ last.ok) =>
        \/ last.arg[4] = <<"-">>
        \/ NamesSquareOn(last.arg[4], "3") /\ last.arg[2] = <<"b">>
        \/ NamesSquareOn(last.arg[4], "6") /\ last.arg[2] = <<"w">>

\* C21: decodeFEN never fails fatally: whatever the text, placements with
\* bytes above 127 included, it returns a Position or an error.
C21_NeverPanics == last.op # "panic"

\* a number written in canonical form: digits only, no leading zero
CanonicalNumber(text) ==
    /\ Len(text) >= 1
    /\ \A i \in 1..Len(text) : isDigit(text[i])
    /\ Len(text) > 1 => text[1] # "0"

\* a FEN text in canonical form: eight ranks of eight files in which no two
\* digits follow each other, w or b, - or letters of KQkq in that order,
\* - or a square, and two numbers
Canonical(fen) ==
    /\ Len(fen) = 6
    /\ Len(ranksOf(fen[1])) = 8
    /\ \A i \in 1..8 :
          LET rank == ranksOf(fen[1])[i]
          IN /\ EightFiles(rank)
             /\ \A k \in 1..(Len(rank) - 1) : ~(isDigit(rank[k]) /\ isDigit(rank[k + 1]))
    /\ fen[2] \in {<<"w">>, <<"b">>}
    /\ \/ fen[3] = <<"-">>
       \/ /\ fen[3] # <<>>
          /\ fen[3] = SelectSeq(<<"K", "Q", "k", "q">>, LAMBDA x : Contains(fen[3], x))
    /\ \/ fen[4] = <<"-">>
       \/ \E d \in {"1", "2", "3", "4", "5", "6", "7", "8"} : NamesSquareOn(fen[4], d)
    /\ CanonicalNumber(fen[5])
    /\ CanonicalNumber(fen[6])

\* C22: the text written for the position decoded from a canonical FEN text
\* is that text, and decoding the written text gives the same board, turn,
\* castling rights, en-passant square and clocks.
C22_RoundTrip ==
    (last.op = "MarshalText" /\ Canonical(last.arg[1])) =>
        /\ last.arg[2] = last.arg[1]
        /\ decodeFEN(last.arg[2]).ok
        /\ LET again == decodeFEN(last.arg[2]).position
           IN /\ again.board = pos.board
              /\ again.turn = pos.turn
              /\ again.castleRights = pos.castleRights
              /\ again.enPassantSquare = pos.enPassantSquare
              /\ again.halfMoveClock = pos.halfMoveClock
              /\ again.moveCount = pos.moveCount

\* the text of a position with pawns, castling rights, an en-passant square
\* and a full-move number of two digits has been written
C22_WrittenWithEnPassant ==
    /\ last.op = "MarshalText"
    /\ Canonical(last.arg[1])
    /\ last.arg[1][3] = <<"K", "q">>
    /\ last.arg[1][4] = <<"e", "3">>
    /\ last.arg[1][6] = <<"1", "0">>
    /\ Contains(last.arg[1][1], "P")

\* C23: the position read back from the binary form of a position decoded
\* from a FEN text has the FEN text of that position, also when the
\* half-move clock is above 255 or the full-move number above 65535.
C23_BinaryRoundTrip ==
    last.op = "UnmarshalBinary" => String(last.arg) = String(pos)

\* C24: a Position is not modified once its legal-move cache is set, and
\* ChangeTurn leaves the side to move of its receiver as it was, so that the
\* cached moves are the legal moves of the Position.
C24_NotModifiedOnceCached ==
    [][/\ (validMoves # nil \/ last'.op = "ChangeTurn") => pos' = pos
       /\ validMoves' # nil => validMoves'.moves = CalcMoves(pos')]_vars

\* C25: the legal-move cache is assigned at most once, whatever the
\* interleaving of the ValidMoves calls on the Position, and the calls
\* return the same moves.
C25_AssignedOnce ==
    [][validMoves # nil => validMoves' = validMoves]_vars

\* the text is one legal first move, a variation of one legal first move,
\* and the rest of a legal main line
VariationOfFirstMove(text) ==
    /\ Len(text.moves) >= 2
    /\ "black" \notin DOMAIN text.moves[1]
    /\ "black" \in DOMAIN text.moves[2]
    /\ ~text.moves[2].black
    /\ parseMove(StartingPosition, text.moves[2].moves[1]) # {}
    /\ Parse([text EXCEPT !.moves = SelectSeq(text.moves,
                                              LAMBDA x : "black" \notin DOMAIN x)]).ok

\* C26: a PGN whose first move has a variation is loaded without a fatal
\* failure: the first move of the variation is the second child of the
\* root and the main line is the one of the text without the variation.
C26_VariationLoaded ==
    (last.op \in {"PGN", "panic"} /\ VariationOfFirstMove(last.arg)) =>
        /\ last.op = "PGN"
        /\ last.ok
        /\ Len(nodes[rootMove].children) = 2
        /\ LET v == nodes[nodes[rootMove].children[2]]
           IN NewMove(v.s1, v.s2, v.promo, v.tags)
                \in parseMove(StartingPosition, last.arg.moves[2].moves[1])
        /\ Moves(nodes) =
             Moves(Parse([last.arg EXCEPT !.moves =
                            SelectSeq(last.arg.moves,
                                      LAMBDA x : "black" \notin DOMAIN x)]).nodes)

\* C27: the game's current position is the position stored at the cursor.
C27_PositionAtCursor == pos = nodes[currentMove].position

\* C28: the Check tag of a pushed move and inCheck of the position after it
\* say whether the side to move is attacked in that position, whatever
\* suffix the move text had, and a game is lost by Checkmate only in such a
\* position.
C28_CheckFromBoard ==
    /\ \A n \in 2..Len(nodes) :
          /\ (Check \in nodes[n].tags) = isInCheck(nodes[n].position)
          /\ nodes[n].position.inCheck = isInCheck(nodes[n].position)
    /\ method = Checkmate => isInCheck(pos)

\* C29: each of two decodeFEN calls that run at once returns what its own
\* text describes: no call reads ranks the other stored.
C29_OwnText ==
    \A c \in DOMAIN goroutines :
       ("fen" \in DOMAIN goroutines[c] /\ goroutines[c].pc = "done") =>
          /\ goroutines[c].ok = decodeFEN(goroutines[c].fen).ok
          /\ goroutines[c].ok => goroutines[c].position = decodeFEN(goroutines[c].fen).position

\* C30: LoadFromSource on a source whose size is a multiple of 16 ends and
\* returns the size/16 entries of the source sorted by key: the loop never
\* holds more entries than the source has, and at its end it holds them all.
C30_LoadsAllEntries ==
    (book.pc \in {"reading", "done"}) =>
        /\ Len(book.entries) <= Len(book.data)
        /\ book.pc = "done" =>
             /\ Len(book.entries) = Len(book.data)
             /\ \A i \in 1..(Len(book.entries) - 1) : book.entries[i] <= book.entries[i + 1]
             /\ \A k \in 1..3 :
                   Cardinality({i \in 1..Len(book.entries) : book.entries[i] = k})
                     = Cardinality({i \in 1..Len(book.data) : book.data[i] = k})

====
